---- MODULE Spec2Model ----
(***************************************************************************)
(* Model of wskdebug (apache/openwhisk-wskdebug).                          *)
(*                                                                         *)
(* Spec      : one debugging session: Debugger.start / run / stop / kill / *)
(*             shutdown (src/src/debugger.js) driving AgentMgr             *)
(*             (src/index.js, lines 910-1431) against the remote OpenWhisk *)
(*             action store.  Node.js runs one task at a time, so every    *)
(*             action below is the code between two awaits; a remote call  *)
(*             is issued by the step that reaches it, applied by the       *)
(*             platform in a step of its own (Server) and its response is  *)
(*             handled by the caller's next step.                          *)
(* SpecAgent : the concurrent-instance agent (src/agent/                   *)
(*             agent-concurrency.js) with callers, its two shared queues   *)
(*             and the debugger's run loop.                                *)
(***************************************************************************)
EXTENDS Integers, Sequences, FiniteSets, TLC

\* ------------------------------------------------------------------------
\* The remote platform: four named action slots of one namespace
\* ------------------------------------------------------------------------

\* <name>, <name>_wskdebug_original, <name>_wskdebug_invoked, <name>_wskdebug_completed
Slots == {"action", "backup", "invoked", "completed"}

\* what a slot holds: nothing, the real implementation, an agent left by an
\* earlier run, this session's concurrency / activation-db / tunnel agent, a
\* helper (echo.js), the real implementation with the parameters $ngrokUrl
\* and $ngrokAuth added to its own
Contents == {"none", "orig", "agentOld", "agentC", "agentP", "agentN", "helper", "origN"}

getActionCopyName == "backup"

\* the wskdebug marker annotation (or the agent's description prefix)
isAgent(c) == c \in {"agentOld", "agentC", "agentP", "agentN"}

\* the agent code of this session
SessionAgent(c) == c \in {"agentC", "agentP", "agentN"}

\* ------------------------------------------------------------------------
\* Tasks (async functions in flight) and their remote calls
\* ------------------------------------------------------------------------

\* the executions of Debugger._shutdown, in the order they are started
SdRuns == {"sd1", "sd2", "sd3"}

\* main: start() then run();  ct/ow/init/ag: the four startup tasks;
\* bk: the createBackup promise;  stop/kill: the callers of stop() and kill()
Tasks == {"main", "ct", "ow", "init", "ag", "bk", "stop", "kill"} \cup SdRuns

NoCall == [op |-> "none", name |-> "none", val |-> "none", conc |-> 0,
           tag |-> "none", st |-> "idle", ret |-> "none"]

\* a request as it leaves the client
Request(op, name, val, conc, tag) ==
    [op |-> op, name |-> name, val |-> val, conc |-> conc,
     tag |-> tag, st |-> "pending", ret |-> "none"]

Tags == {"peek", "read", "version", "backup", "push", "helper",
         "restoreGet", "restoreUpd", "delBackup", "probeHelper", "delHelper"}

VARIABLES
    remote,          \* Slots -> Contents
    env,             \* how the platform and docker answer in this run
    argv,            \* the options of the session
    pc,              \* Tasks -> position
    call,            \* Tasks -> the remote call the task is waiting for
    waitOn,          \* Tasks -> the _shutdown / restore execution it awaits
    local,           \* Tasks -> a local variable of the task (original, e)
    cnt,             \* Tags -> number of requests of that kind applied so far
    agentInstalled,  \* AgentMgr fields
    actionWithCode,
    createBackup,
    shuttingDown,
    concurrency,
    polling,
    restorePromise,
    versionKnown,
    ready,           \* Debugger fields
    running,
    runPromise,
    shutdownPromise,
    invoker,         \* "none" until created, then the container's state
    watching,
    exited,          \* process.exit() was called
    hist             \* history (ghost) flags the properties read

sessionVars == <<remote, env, argv, pc, call, waitOn, local, cnt, agentInstalled,
                 actionWithCode, createBackup, shuttingDown, concurrency, polling,
                 restorePromise, versionKnown, ready, running, runPromise,
                 shutdownPromise, invoker, watching, exited, hist>>

\* ------------------------------------------------------------------------
\* Initial states
\* ------------------------------------------------------------------------

\* what the two slots can hold when a session begins: a deployed action, with
\* or without a backup left by an earlier run, or an agent left by a killed run
InitialRemotes ==
    { [s \in Slots |-> CASE s = "action" -> a [] s = "backup" -> b [] OTHER -> "none"] :
        a \in {"orig", "agentOld"}, b \in {"none", "orig", "agentOld"} }

SessionInit ==
    /\ remote \in InitialRemotes
    /\ env \in [concurrencySupported : BOOLEAN, backupWriteOk : BOOLEAN]
    /\ argv \in [cleanup : BOOLEAN, disableConcurrency : BOOLEAN, ngrok : BOOLEAN]
    /\ pc = [t \in Tasks |-> IF t = "main" THEN "new" ELSE "idle"]
    /\ call = [t \in Tasks |-> NoCall]
    /\ waitOn = [t \in Tasks |-> "none"]
    /\ local = [t \in Tasks |-> "undef"]
    /\ cnt = [g \in Tags |-> 0]
    /\ agentInstalled = FALSE
    /\ actionWithCode = "undef"
    /\ createBackup = "undef"
    /\ shuttingDown = FALSE
    /\ concurrency = FALSE   \* undefined until installAgent, read only by truth value
    /\ polling = TRUE
    /\ restorePromise = "none"
    /\ versionKnown = FALSE
    /\ ready = FALSE
    /\ running = FALSE
    /\ runPromise = "undef"
    /\ shutdownPromise = "none"
    /\ invoker = "none"
    /\ watching = FALSE
    /\ exited = FALSE
    /\ hist = [installDone |-> FALSE, sdAfterInstall |-> {}, recovery |-> FALSE,
               fellBack |-> FALSE, conflict |-> FALSE, joins |-> 0, restores |-> 0]

\* ------------------------------------------------------------------------
\* The platform applies one request that is in flight
\* ------------------------------------------------------------------------

\* the platform's answer to request r in store rem: <<status, returned value, new store>>
Answer(r, rem) ==
    CASE r.op = "get" ->
            IF rem[r.name] = "none" THEN <<"e404", "none", rem>>
            ELSE <<"ok", rem[r.name], rem>>
      [] r.op = "update" ->
            IF r.tag = "push" /\ r.conc = 200 /\ ~env.concurrencySupported
                THEN <<"e400c", "none", rem>>
            ELSE IF r.tag = "backup" /\ ~env.backupWriteOk
                THEN <<"err", "none", rem>>
            ELSE <<"ok", "none", [rem EXCEPT ![r.name] = r.val]>>
      [] r.op = "delete" ->
            IF rem[r.name] = "none" THEN <<"e404", "none", rem>>
            ELSE <<"ok", "none", [rem EXCEPT ![r.name] = "none"]>>
      [] OTHER -> <<"ok", "none", rem>>

\* the answers the platform can give: the one its state determines and, for
\* the overwrite of the action with agent code, also an error of another kind
\* (a 5xx, a network failure) that leaves the slot as it was
Answers(r, rem) ==
    {Answer(r, rem)} \cup
        (IF r.tag = "push" /\ Answer(r, rem)[1] = "ok"
            THEN {<<"err", "none", rem>>} ELSE {})

Server(t) ==
    /\ call[t].st = "pending"
    /\ \E a \in Answers(call[t], remote) :
        /\ call' = [call EXCEPT ![t].st = a[1], ![t].ret = a[2]]
        /\ remote' = a[3]
    /\ cnt' = [cnt EXCEPT ![call[t].tag] = @ + 1]
    /\ UNCHANGED <<env, argv, pc, waitOn, local, agentInstalled, actionWithCode,
                   createBackup, shuttingDown, concurrency, polling, restorePromise,
                   versionKnown, ready, running, runPromise, shutdownPromise,
                   invoker, watching, exited, hist>>

\* requests of kind g sent so far: applied or still in flight
Issued(g) == cnt[g] + Cardinality({t \in Tasks : call[t].st = "pending" /\ call[t].tag = g})

\* ------------------------------------------------------------------------
\* AgentMgr.restoreAction / _restoreAction
\* ------------------------------------------------------------------------

RestorePcs == {"rget", "rupd", "rdel", "rprobe1", "rdelh1", "rprobe2", "rdelh2"}

\* task o is executing _restoreAction
InRestore(o) == pc[o] \in RestorePcs

\* faulty variant of restoreInFlight: restoreAction without its guard, every
\* call starts a _restoreAction of its own
restoreNeverInFlight == FALSE

\* `if (this._restorePromise)`: a restore is already running
restoreInFlight == restorePromise # "none"

\* restoreAction() called by task t, up to its first await: join the restore in
\* flight, or start _restoreAction (original from memory, else read the backup)
restoreAction(t) ==
    IF restoreInFlight
        THEN [pc |-> "rjoin", call |-> NoCall, rp |-> restorePromise, on |-> restorePromise]
    ELSE IF actionWithCode # "undef"
        THEN [pc |-> "rupd", rp |-> t, on |-> "none",
              call |-> Request("update", "action", actionWithCode, 0, "restoreUpd")]
    ELSE [pc |-> "rget", rp |-> t, on |-> "none",
          call |-> Request("get", getActionCopyName, "none", 0, "restoreGet")]

\* faulty variant of tryCatch: the rejection of a step leaves _shutdown
tryCatchRethrows(next, threw) == IF threw THEN "failed" ELSE next

\* tryCatch(task): awaits the step and logs its rejection, so _shutdown goes
\* on to `next` whether or not the step threw
tryCatch(next, threw) == next

\* where _shutdown goes on once agentMgr.shutdown() has settled: invoker.stop()
\* removes the container if there is one, then watcher.stop()
AfterNgrokStop == IF invoker = "up" THEN "cstop" ELSE "wstop"

\* faulty variant of AfterAgentShutdown: AgentMgr.shutdown() without its finally
AfterAgentShutdownNoFinally == AfterNgrokStop

\* the finally of AgentMgr.shutdown(): `if (this.ngrokAgent)` the tunnel is
\* stopped first; the tunnel agent exists once installAgent was entered
AfterAgentShutdown == IF argv.ngrok /\ pc["ag"] # "idle" THEN "nstop" ELSE AfterNgrokStop

\* restoreAction() returns `result` to its caller t, which runs on to its next
\* await: readActionWithCode (ow) stores it and rejects an agent or nothing;
\* AgentMgr.shutdown (a _shutdown run) returns to _shutdown
RestoreReturn(t, result) ==
    /\ call' = [call EXCEPT ![t] = NoCall]
    /\ waitOn' = [waitOn EXCEPT ![t] = "none"]
    /\ IF t = "ow"
        THEN /\ actionWithCode' = result
             /\ pc' = [pc EXCEPT ![t] = IF result = "undef" \/ isAgent(result)
                                         THEN "failed" ELSE "done"]
        ELSE /\ pc' = [pc EXCEPT ![t] = AfterAgentShutdown]
             /\ UNCHANGED actionWithCode

\* history: one more restoreAction() call, which joined or started a restore
Tally(h, r) ==
    [h EXCEPT !.joins = @ + (IF r.pc = "rjoin" THEN 1 ELSE 0),
              !.restores = @ + (IF r.pc \in {"rget", "rupd"} THEN 1 ELSE 0)]

\* the next request of _restoreAction
RestoreNext(t, newpc, req) ==
    /\ pc' = [pc EXCEPT ![t] = newpc]
    /\ call' = [call EXCEPT ![t] = req]
    /\ UNCHANGED <<waitOn, actionWithCode, restorePromise>>

\* _restoreAction ends (normally with the original, or in its catch with
\* undefined); the initiating restoreAction deletes the promise and returns
RestoreEnd(t, result) ==
    /\ restorePromise' = "none"
    /\ RestoreReturn(t, result)

\* one step of _restoreAction: the response to its request in flight
RestoreStep(t) ==
    /\ ~exited
    /\ InRestore(t)
    /\ call[t].st # "pending"
    /\ LET ok == call[t].st = "ok" IN
       CASE pc[t] = "rget" ->
              /\ local' = [local EXCEPT ![t] = IF ok THEN call[t].ret ELSE "undef"]
              /\ IF ok THEN RestoreNext(t, "rupd",
                               Request("update", "action", call[t].ret, 0, "restoreUpd"))
                       ELSE RestoreEnd(t, "undef")
         [] pc[t] = "rupd" ->
              /\ local' = [local EXCEPT ![t] = call[t].val]
              /\ IF ~ok THEN RestoreEnd(t, "undef")
                 ELSE IF argv.cleanup
                    THEN RestoreNext(t, "rdel",
                            Request("delete", getActionCopyName, "none", 0, "delBackup"))
                    ELSE RestoreEnd(t, call[t].val)
         [] pc[t] = "rdel" ->
              /\ UNCHANGED local
              /\ IF ok THEN RestoreNext(t, "rprobe1",
                               Request("get", "invoked", "none", 0, "probeHelper"))
                       ELSE RestoreEnd(t, "undef")
         [] pc[t] = "rprobe1" ->
              /\ UNCHANGED local
              /\ IF ok THEN RestoreNext(t, "rdelh1",
                               Request("delete", "invoked", "none", 0, "delHelper"))
                       ELSE RestoreNext(t, "rprobe2",
                               Request("get", "completed", "none", 0, "probeHelper"))
         [] pc[t] = "rdelh1" ->
              /\ UNCHANGED local
              /\ IF ok THEN RestoreNext(t, "rprobe2",
                               Request("get", "completed", "none", 0, "probeHelper"))
                       ELSE RestoreEnd(t, "undef")
         [] pc[t] = "rprobe2" ->
              /\ UNCHANGED local
              /\ IF ok THEN RestoreNext(t, "rdelh2",
                               Request("delete", "completed", "none", 0, "delHelper"))
                       ELSE RestoreEnd(t, local[t])
         [] OTHER ->
              /\ UNCHANGED local
              /\ RestoreEnd(t, IF ok THEN local[t] ELSE "undef")
    /\ UNCHANGED <<remote, env, argv, cnt, agentInstalled, createBackup, shuttingDown,
                   concurrency, polling, versionKnown, ready, running, runPromise,
                   shutdownPromise, invoker, watching, exited, hist>>

\* a restoreAction() call that joined a restore in flight resumes once that
\* restore has finished, and returns undefined
RestoreJoined(t) ==
    /\ ~exited
    /\ pc[t] = "rjoin"
    /\ ~InRestore(waitOn[t])
    /\ RestoreReturn(t, "undef")
    /\ UNCHANGED <<remote, env, argv, local, cnt, agentInstalled, createBackup,
                   shuttingDown, concurrency, polling, restorePromise, versionKnown,
                   ready, running, runPromise, shutdownPromise, invoker, watching,
                   exited, hist>>

\* ------------------------------------------------------------------------
\* Debugger.shutdown / _shutdown and AgentMgr.shutdown
\* ------------------------------------------------------------------------

SdOrder == <<"sd1", "sd2", "sd3">>

\* the _shutdown executions started so far
SdStarted == {k \in SdRuns : pc[k] # "idle"}

\* the _shutdown executions in flight
SdActive == {k \in SdRuns : pc[k] \notin {"idle", "done"}}

NextSd == SdOrder[Cardinality(SdStarted) + 1]

\* AgentMgr.shutdown() as run k starts it, up to its first real suspension:
\* with no createBackup promise the await falls through, and the restore is
\* started if the agent is (or was left) installed
agentMgrShutdown(k) ==
    IF createBackup # "undef"
        THEN [pc |-> "bkWait", call |-> NoCall, rp |-> restorePromise, on |-> "none"]
    ELSE IF agentInstalled THEN restoreAction(k)
    ELSE [pc |-> AfterAgentShutdown, call |-> NoCall, rp |-> restorePromise, on |-> "none"]

\* faulty variant of shutdownInFlight: shutdown() without its guard, every
\* call starts a _shutdown of its own
shutdownNeverInFlight == FALSE

\* `if (!this.shutdownPromise)` is false: a _shutdown is in flight
shutdownInFlight == shutdownPromise # "none"

\* Debugger.shutdown() called by task t, up to `await this.shutdownPromise`:
\* starts _shutdown unless one is in flight
shutdown(t) ==
    IF ~shutdownInFlight
    THEN LET k == NextSd
             r == agentMgrShutdown(k) IN
         /\ Cardinality(SdStarted) < Len(SdOrder)
         /\ shutdownPromise' = k
         /\ shuttingDown' = TRUE
         /\ pc' = [pc EXCEPT ![t] = "awaitShutdown", ![k] = r.pc]
         /\ call' = [call EXCEPT ![k] = r.call]
         /\ waitOn' = [waitOn EXCEPT ![t] = k, ![k] = r.on]
         /\ restorePromise' = r.rp
         /\ hist' = [Tally(hist, r) EXCEPT
                !.sdAfterInstall = IF hist.installDone THEN @ \cup {k} ELSE @]
    ELSE /\ pc' = [pc EXCEPT ![t] = "awaitShutdown"]
         /\ waitOn' = [waitOn EXCEPT ![t] = shutdownPromise]
         /\ UNCHANGED <<shutdownPromise, shuttingDown, call, restorePromise, hist>>

\* AgentMgr.shutdown() after `await this.createBackup`: a rejected backup write
\* throws out of shutdown() (tryCatch logs it), otherwise the restore starts
SdBackupSettled(k) ==
    /\ ~exited
    /\ pc[k] = "bkWait"
    /\ createBackup \in {"resolved", "rejected"}
    /\ LET r == IF createBackup = "resolved" /\ agentInstalled
                  THEN restoreAction(k)
                  ELSE [pc |-> tryCatch(AfterAgentShutdown, createBackup = "rejected"),
                        call |-> NoCall, rp |-> restorePromise, on |-> "none"] IN
        /\ pc' = [pc EXCEPT ![k] = r.pc]
        /\ call' = [call EXCEPT ![k] = r.call]
        /\ waitOn' = [waitOn EXCEPT ![k] = r.on]
        /\ restorePromise' = r.rp
        /\ hist' = Tally(hist, r)
    /\ UNCHANGED <<remote, env, argv, local, cnt, agentInstalled, actionWithCode,
                   createBackup, shuttingDown, concurrency, polling, versionKnown,
                   ready, running, runPromise, shutdownPromise, invoker, watching,
                   exited>>

\* `await this.ngrokAgent.stop()` in the finally of AgentMgr.shutdown() is over
SdNgrokStopped(k) ==
    /\ ~exited
    /\ pc[k] = "nstop"
    /\ pc' = [pc EXCEPT ![k] = AfterNgrokStop]
    /\ UNCHANGED <<remote, env, argv, call, waitOn, local, cnt, agentInstalled,
                   actionWithCode, createBackup, shuttingDown, concurrency, polling,
                   restorePromise, versionKnown, ready, running, runPromise,
                   shutdownPromise, invoker, watching, exited, hist>>

\* invoker.stop(): the container is removed and the handle forgotten; a
\* failure of the removal is caught inside stop() itself
SdContainerStopped(k) ==
    /\ ~exited
    /\ pc[k] = "cstop"
    /\ invoker' = "gone"
    /\ pc' = [pc EXCEPT ![k] = tryCatch("wstop", FALSE)]
    /\ UNCHANGED <<remote, env, argv, call, waitOn, local, cnt, agentInstalled,
                   actionWithCode, createBackup, shuttingDown, concurrency, polling,
                   restorePromise, versionKnown, ready, running, runPromise,
                   shutdownPromise, watching, exited, hist>>

\* watcher.stop() through tryCatch, then _shutdown returns; the callers awaiting it resume in
\* the same tick and the first of them deletes shutdownPromise
SdWatcherStopped(k) ==
    /\ ~exited
    /\ pc[k] = "wstop"
    /\ \E threw \in {FALSE} \cup (IF watching THEN {TRUE} ELSE {}) :
        \* closing the live-reload server may throw, and then it is kept
        /\ watching' = (watching /\ threw)
        /\ pc' = [pc EXCEPT ![k] = tryCatch("done", threw)]
    /\ ready' = FALSE
    /\ shutdownPromise' = "none"
    /\ UNCHANGED <<remote, env, argv, call, waitOn, local, cnt, agentInstalled,
                   actionWithCode, createBackup, shuttingDown, concurrency, polling,
                   restorePromise, versionKnown, running, runPromise, invoker,
                   exited, hist>>

\* ------------------------------------------------------------------------
\* Debugger.stop / kill, the signal handler
\* ------------------------------------------------------------------------

\* stop(): clear the run flags, then wait for the run loop if run() was
\* called, else shut down
stop ==
    /\ ~exited
    /\ pc["stop"] = "idle"
    /\ pc["main"] # "new"
    /\ running' = FALSE
    /\ polling' = FALSE
    /\ IF runPromise # "undef"
        THEN /\ pc' = [pc EXCEPT !["stop"] = "awaitRun"]
             /\ UNCHANGED <<shutdownPromise, shuttingDown, call, waitOn,
                            restorePromise, hist>>
        ELSE shutdown("stop")
    /\ UNCHANGED <<remote, env, argv, local, cnt, agentInstalled, actionWithCode,
                   createBackup, concurrency, versionKnown, ready, runPromise,
                   invoker, watching, exited>>

\* kill(): clear the run flags and shut down at once
kill ==
    /\ ~exited
    /\ pc["kill"] = "idle"
    /\ pc["main"] # "new"
    /\ running' = FALSE
    /\ polling' = FALSE
    /\ shutdown("kill")
    /\ UNCHANGED <<remote, env, argv, local, cnt, agentInstalled, actionWithCode,
                   createBackup, concurrency, versionKnown, ready, runPromise,
                   invoker, watching, exited>>

\* faulty variant of shutdownSettled: the teardown is not awaited
shutdownNotAwaited(t) == TRUE

\* `await this.shutdown()` of task t is over: the _shutdown it awaits has ended
shutdownSettled(t) == pc[waitOn[t]] = "done"

\* a caller of shutdown() (stop, kill) or of run() (stop) resumes
Resumed(t) ==
    /\ ~exited
    /\ \/ pc[t] = "awaitShutdown" /\ shutdownSettled(t)
       \/ pc[t] = "awaitRun" /\ runPromise = "settled"
    /\ pc' = [pc EXCEPT ![t] = "done"]
    /\ waitOn' = [waitOn EXCEPT ![t] = "none"]
    /\ UNCHANGED <<remote, env, argv, call, local, cnt, agentInstalled,
                   actionWithCode, createBackup, shuttingDown, concurrency, polling,
                   restorePromise, versionKnown, ready, running, runPromise,
                   shutdownPromise, invoker, watching, exited, hist>>

\* process.exit(): after kill() in the signal handler, or printErrorAndExit
\* when start() or run() rejected
ProcessExit ==
    /\ ~exited
    /\ pc["kill"] = "done" \/ pc["main"] = "rejected"
    /\ exited' = TRUE
    /\ UNCHANGED <<remote, env, argv, pc, call, waitOn, local, cnt, agentInstalled,
                   actionWithCode, createBackup, shuttingDown, concurrency, polling,
                   restorePromise, versionKnown, ready, running, runPromise,
                   shutdownPromise, invoker, watching, hist>>

\* ------------------------------------------------------------------------
\* Debugger.start: peekAction, then the four startup tasks
\* ------------------------------------------------------------------------

\* the steps inside the try of start() that can throw
StartSteps == {"prepare", "ct", "ow", "init", "ag", "watch"}

\* the catch of start(): e is kept for the rethrow, shutdown() is called
startCatch(e) ==
    /\ local' = [local EXCEPT !["main"] = e]
    /\ shutdown("main")

\* start() up to peekAction's first request
start ==
    /\ ~exited
    /\ pc["main"] = "new"
    /\ pc' = [pc EXCEPT !["main"] = "peek1"]
    /\ call' = [call EXCEPT !["main"] = Request("get", "action", "none", 0, "peek")]
    /\ UNCHANGED <<remote, env, argv, waitOn, local, cnt, agentInstalled,
                   actionWithCode, createBackup, shuttingDown, concurrency, polling,
                   restorePromise, versionKnown, ready, running, runPromise,
                   shutdownPromise, invoker, watching, exited, hist>>

\* faulty variant of usableBackup: any existing backup is accepted, also one
\* that is itself an agent
anyBackup(ok, got) == ok

\* the backup read by peekAction exists and is not itself an agent
usableBackup(ok, got) == ok /\ ~isAgent(got)

\* peekAction, the responses to its one or two metadata reads: a missing
\* action, or an agent without a sound backup, is fatal (thrown outside the
\* try of start(): no shutdown); an agent with a sound backup is flagged
peekAction ==
    /\ ~exited
    /\ pc["main"] \in {"peek1", "peek2"}
    /\ call["main"].st # "pending"
    /\ LET ok  == call["main"].st = "ok"
           got == call["main"].ret IN
       IF pc["main"] = "peek1" /\ ok /\ isAgent(got)
       THEN /\ pc' = [pc EXCEPT !["main"] = "peek2"]
            /\ call' = [call EXCEPT !["main"] =
                            Request("get", getActionCopyName, "none", 0, "peek")]
            /\ UNCHANGED <<agentInstalled, invoker, hist>>
       ELSE /\ call' = [call EXCEPT !["main"] = NoCall]
            /\ IF (pc["main"] = "peek1" /\ ok) \/ (pc["main"] = "peek2" /\ usableBackup(ok, got))
               THEN /\ pc' = [pc EXCEPT !["main"] = "prep"]
                    /\ agentInstalled' = (pc["main"] = "peek2")
                    /\ invoker' = "new"
                    /\ hist' = [hist EXCEPT
                            !.recovery = (pc["main"] = "peek2" /\ ok /\ ~isAgent(got)),
                            !.conflict = (pc["main"] = "peek2" /\ (~ok \/ isAgent(got)))]
               ELSE /\ pc' = [pc EXCEPT !["main"] = "rejected"]
                    /\ hist' = [hist EXCEPT !.conflict = (pc["main"] = "peek2")]
                    /\ UNCHANGED <<agentInstalled, invoker>>
    /\ UNCHANGED <<remote, env, argv, waitOn, local, cnt, actionWithCode,
                   createBackup, shuttingDown, concurrency, polling, restorePromise,
                   versionKnown, ready, running, runPromise, shutdownPromise,
                   watching, exited>>

\* faulty variant of readActionWithCode: the slot is read whether or not an
\* agent was left installed
readActionWithCodeNoRestore ==
    [pc |-> "read", rp |-> restorePromise, on |-> "none",
     call |-> Request("get", "action", "none", 0, "read")]

\* readActionWithCode() up to its first await: restore first when an agent
\* was left installed, else read the action
readActionWithCode ==
    IF agentInstalled THEN restoreAction("ow")
    ELSE [pc |-> "read", rp |-> restorePromise, on |-> "none",
          call |-> Request("get", "action", "none", 0, "read")]

\* what checkIfDockerAvailable and prepare come to
PrepOutcomes == {"ok", "noDocker", "prepareFailed"}

\* checkIfDockerAvailable, before the try: without docker start() rejects at
\* once. Then, inside the try, prepare: if it throws, the catch of start()
\* runs; else the container is started and the code fetched in parallel
startTasks ==
    /\ ~exited
    /\ pc["main"] = "prep"
    /\ \E o \in PrepOutcomes :
        CASE o = "noDocker" ->
               /\ pc' = [pc EXCEPT !["main"] = "rejected"]
               /\ UNCHANGED <<call, waitOn, restorePromise, hist, local,
                              shutdownPromise, shuttingDown>>
          [] o = "prepareFailed" ->
               startCatch("prepare")
          [] OTHER ->
               LET r == readActionWithCode IN
               /\ pc' = [pc EXCEPT !["main"] = "join1", !["ct"] = "starting", !["ow"] = r.pc]
               /\ call' = [call EXCEPT !["ow"] = r.call]
               /\ waitOn' = [waitOn EXCEPT !["ow"] = r.on]
               /\ restorePromise' = r.rp
               /\ hist' = Tally(hist, r)
               /\ UNCHANGED <<local, shutdownPromise, shuttingDown>>
    /\ UNCHANGED <<remote, env, argv, cnt, agentInstalled, actionWithCode,
                   createBackup, concurrency, polling, versionKnown,
                   ready, running, runPromise, invoker, watching,
                   exited>>

\* invoker.startContainer() has created and started the container, or has
\* thrown (debug port taken, image missing, docker error)
startContainer ==
    /\ ~exited
    /\ pc["ct"] = "starting"
    /\ \E ok \in BOOLEAN :
        /\ pc' = [pc EXCEPT !["ct"] = IF ok THEN "done" ELSE "failed"]
        /\ invoker' = IF ok THEN "up" ELSE invoker
    /\ UNCHANGED <<remote, env, argv, call, waitOn, local, cnt, agentInstalled,
                   actionWithCode, createBackup, shuttingDown, concurrency, polling,
                   restorePromise, versionKnown, ready, running, runPromise,
                   shutdownPromise, watching, exited, hist>>

\* readActionWithCode, the response to wsk.actions.get: keep the action,
\* refuse an agent
readActionDone ==
    /\ ~exited
    /\ pc["ow"] = "read"
    /\ call["ow"].st # "pending"
    /\ LET a == IF call["ow"].st = "ok" THEN call["ow"].ret ELSE "undef" IN
        /\ actionWithCode' = a
        /\ pc' = [pc EXCEPT !["ow"] = IF a = "undef" \/ isAgent(a) THEN "failed" ELSE "done"]
    /\ call' = [call EXCEPT !["ow"] = NoCall]
    /\ UNCHANGED <<remote, env, argv, waitOn, local, cnt, agentInstalled,
                   createBackup, shuttingDown, concurrency, polling, restorePromise,
                   versionKnown, ready, running, runPromise, shutdownPromise,
                   invoker, watching, exited, hist>>

\* invoker.init(): the container accepts the code, or answers 502 (broken code)
init ==
    /\ ~exited
    /\ pc["init"] = "initing"
    /\ \E ok \in BOOLEAN : pc' = [pc EXCEPT !["init"] = IF ok THEN "done" ELSE "failed"]
    /\ UNCHANGED <<remote, env, argv, call, waitOn, local, cnt, agentInstalled,
                   actionWithCode, createBackup, shuttingDown, concurrency, polling,
                   restorePromise, versionKnown, ready, running, runPromise,
                   shutdownPromise, invoker, watching, exited, hist>>

\* ------------------------------------------------------------------------
\* AgentMgr.installAgent, pushAgent, createBackup, the helper actions
\* ------------------------------------------------------------------------

\* faulty variant of agentLimits: the limit follows the option only, so the
\* fallback keeps the concurrency limit of the first attempt
agentLimitsKept == IF argv.disableConcurrency THEN 1 ELSE 200

\* limits.concurrency of the agent: `this.concurrency ? 200 : 1`
agentLimits == IF concurrency = TRUE THEN 200 ELSE 1

\* pushAgent() after `await this.openwhiskSupports("nodejs8")`: nothing is
\* written once shutdown has begun, else the slot is overwritten (request sent)
pushAgent(agentCode, sentPc) ==
    IF shuttingDown
        THEN [pc |-> "done", call |-> NoCall]
        ELSE [pc |-> sentPc,
              call |-> Request("update", "action", agentCode, agentLimits, "push")]

\* agentAction, the clone of the original that installAgent hands to getAgent
\* and then to the backup write: NgrokAgent.getAgent has pushed $ngrokUrl and
\* $ngrokAuth onto its parameters by then
agentAction == IF argv.ngrok /\ actionWithCode = "orig" THEN "origN" ELSE actionWithCode

\* the async createBackup function, up to its await: the backup write is sent
createBackupCall == Request("update", getActionCopyName, agentAction, 0, "backup")

\* task ag leaves installAgent (returns or throws) or goes on to its next await
AgentGoes(newpc, req) ==
    /\ pc' = [pc EXCEPT !["ag"] = newpc]
    /\ call' = [call EXCEPT !["ag"] = req]
    /\ hist' = [hist EXCEPT !.installDone = @ \/ newpc = "done"]

\* installAgent() up to its first request (the version probe of the first
\* openwhiskSupports): with the concurrency agent the backup write is sent
\* first; the activation-db agent creates its helper actions before that
installAgent ==
    /\ agentInstalled' = TRUE
    /\ concurrency' = (~argv.ngrok /\ ~argv.disableConcurrency)
    /\ IF argv.ngrok
        THEN \* `await this.ngrokAgent.getAgent(agentAction)`
             /\ createBackup' = createBackup
             /\ pc' = [pc EXCEPT !["ag"] = "ngrok", !["main"] = "join2",
                                 !["init"] = "initing"]
             /\ call' = call
       ELSE IF ~argv.disableConcurrency
        THEN /\ createBackup' = "pending"
             /\ pc' = [pc EXCEPT !["ag"] = "ver", !["bk"] = "sent", !["main"] = "join2",
                                 !["init"] = "initing"]
             /\ call' = [call EXCEPT !["bk"] = createBackupCall,
                                     !["ag"] = Request("version", "none", "none", 0, "version")]
        ELSE /\ createBackup' = createBackup
             /\ pc' = [pc EXCEPT !["ag"] = "hver", !["main"] = "join2",
                                 !["init"] = "initing"]
             /\ call' = [call EXCEPT
                            !["ag"] = Request("version", "none", "none", 0, "version")]

\* faulty variant of promiseAll: fulfilled as soon as one task is (Promise.race)
promiseAny(ts) == \E t \in ts : pc[t] = "done"

\* `await Promise.all([...])` goes on: every task of the list is fulfilled
promiseAll(ts) == \A t \in ts : pc[t] = "done"

\* Promise.all([containerTask, openwhiskTask]) settles: on a rejection start()
\* shuts down; else init and installAgent are started in parallel
startJoined ==
    /\ ~exited
    /\ pc["main"] = "join1"
    /\ IF "failed" \in {pc["ct"], pc["ow"]}
        THEN /\ \E e \in {t \in {"ct", "ow"} : pc[t] = "failed"} : startCatch(e)
             /\ UNCHANGED <<agentInstalled, concurrency, createBackup>>
        ELSE /\ promiseAll({"ct", "ow"})
             /\ installAgent
             /\ UNCHANGED <<waitOn, restorePromise, shutdownPromise, shuttingDown,
                            hist, local>>
    /\ UNCHANGED <<remote, env, argv, cnt, actionWithCode, polling,
                   versionKnown, ready, running, runPromise, invoker, watching, exited>>

\* installAgent, the response to the request in flight
installAgentStep ==
    /\ ~exited
    /\ pc["ag"] \in {"ver", "hver", "h1", "h2", "fh1", "fh2", "push1", "push2"}
    /\ call["ag"].st # "pending"
    /\ versionKnown' = TRUE
    /\ LET st == call["ag"].st
           helper(slot) == Request("update", slot, "helper", 0, "helper") IN
       CASE pc["ag"] = "ver" ->
              \* pushAgent with the concurrency agent, limit 200
              LET r == pushAgent(IF argv.ngrok THEN "agentN" ELSE "agentC", "push1") IN
              /\ AgentGoes(r.pc, r.call)
              /\ UNCHANGED <<concurrency, createBackup>>
         [] pc["ag"] = "hver" ->
              /\ AgentGoes("h1", helper("invoked"))
              /\ UNCHANGED <<concurrency, createBackup>>
         [] pc["ag"] \in {"h1", "fh1"} ->
              /\ AgentGoes(IF st # "ok" THEN "failed"
                           ELSE IF pc["ag"] = "h1" THEN "h2" ELSE "fh2",
                           IF st # "ok" THEN NoCall ELSE helper("completed"))
              /\ UNCHANGED <<concurrency, createBackup>>
         [] pc["ag"] = "h2" ->
              \* helpers exist: send the backup write, then pushAgent, limit 1
              IF st # "ok"
              THEN /\ AgentGoes("failed", NoCall)
                   /\ UNCHANGED <<concurrency, createBackup>>
              ELSE LET r == pushAgent("agentP", "push1") IN
                   /\ createBackup' = "pending"
                   /\ pc' = [pc EXCEPT !["ag"] = r.pc, !["bk"] = "sent"]
                   /\ call' = [call EXCEPT !["ag"] = r.call, !["bk"] = createBackupCall]
                   /\ hist' = [hist EXCEPT !.installDone = @ \/ r.pc = "done"]
                   /\ UNCHANGED concurrency
         [] pc["ag"] = "push1" ->
              \* a 400 naming "concurrency": fall back to the activation-db
              \* agent; any other error of the first overwrite is dropped
              IF st = "e400c"
              THEN /\ concurrency' = FALSE
                   /\ pc' = [pc EXCEPT !["ag"] = "fh1"]
                   /\ call' = [call EXCEPT !["ag"] = helper("invoked")]
                   /\ hist' = [hist EXCEPT !.fellBack = TRUE]
                   /\ UNCHANGED createBackup
              ELSE /\ AgentGoes("done", NoCall)
                   /\ UNCHANGED <<concurrency, createBackup>>
         [] pc["ag"] = "fh2" ->
              \* second pushAgent, with the activation-db agent, limit 1
              LET r == IF st = "ok" THEN pushAgent("agentP", "push2")
                       ELSE [pc |-> "failed", call |-> NoCall] IN
              /\ AgentGoes(r.pc, r.call)
              /\ UNCHANGED <<concurrency, createBackup>>
         [] OTHER ->
              /\ AgentGoes(IF st = "ok" THEN "done" ELSE "failed", NoCall)
              /\ UNCHANGED <<concurrency, createBackup>>
    /\ UNCHANGED <<remote, env, argv, waitOn, local, cnt, agentInstalled,
                   actionWithCode, shuttingDown, polling, restorePromise, ready,
                   running, runPromise, shutdownPromise, invoker, watching, exited>>

\* the createBackup promise settles with the answer to the backup write
createBackupDone ==
    /\ ~exited
    /\ pc["bk"] = "sent"
    /\ call["bk"].st # "pending"
    /\ createBackup' = IF call["bk"].st = "ok" THEN "resolved" ELSE "rejected"
    /\ pc' = [pc EXCEPT !["bk"] = "done"]
    /\ call' = [call EXCEPT !["bk"] = NoCall]
    /\ UNCHANGED <<remote, env, argv, waitOn, local, cnt, agentInstalled,
                   actionWithCode, shuttingDown, concurrency, polling, restorePromise,
                   versionKnown, ready, running, runPromise, shutdownPromise,
                   invoker, watching, exited, hist>>

\* ------------------------------------------------------------------------
\* Debugger.start (end), Debugger.run / _run
\* ------------------------------------------------------------------------

\* Promise.all([initTask, agentTask]) settles: on a rejection start() shuts
\* down, else it goes on to watcher.start()
agentJoined ==
    /\ ~exited
    /\ pc["main"] = "join2"
    /\ IF "failed" \in {pc["init"], pc["ag"]}
        THEN \E e \in {t \in {"init", "ag"} : pc[t] = "failed"} : startCatch(e)
        ELSE /\ promiseAll({"init", "ag"})
             /\ pc' = [pc EXCEPT !["main"] = "watch"]
             /\ UNCHANGED <<call, waitOn, restorePromise, shutdownPromise,
                            shuttingDown, hist, local>>
    /\ UNCHANGED <<remote, env, argv, cnt, agentInstalled, actionWithCode,
                   createBackup, concurrency, polling, versionKnown, ready, running,
                   runPromise, invoker, watching, exited>>

\* waitForActivations() is entered (or loops): while polling, the next wait is
\* sent; with polling cleared it returns undefined, _run returns and its
\* finally shuts down
waitForActivations ==
    IF polling
        THEN /\ pc' = [pc EXCEPT !["main"] = "wait"]
             /\ UNCHANGED <<call, waitOn, restorePromise, shutdownPromise,
                            shuttingDown, hist>>
        ELSE shutdown("main")

\* watcher.start() is done: ready, start() resolves; run() sets the run flag
\* and enters the loop. Or watcher.start() throws
run ==
    /\ ~exited
    /\ pc["main"] = "watch"
    /\ \E ok \in BOOLEAN :
        IF ok
        THEN /\ watching' = TRUE
             /\ ready' = TRUE
             /\ runPromise' = "pending"
             /\ running' = TRUE
             /\ IF argv.ngrok
                 THEN \* the tunnel serves the activations: the loop only sleeps
                      /\ pc' = [pc EXCEPT !["main"] = "ngrokSleep"]
                      /\ UNCHANGED <<call, waitOn, restorePromise, shutdownPromise,
                                     shuttingDown, hist>>
                 ELSE waitForActivations
             /\ UNCHANGED local
        ELSE \* watcher.start() throws: the catch of start()
             /\ startCatch("watch")
             /\ UNCHANGED <<watching, ready, runPromise, running>>
    /\ UNCHANGED <<remote, env, argv, cnt, agentInstalled, actionWithCode,
                   createBackup, concurrency, polling, versionKnown, invoker, exited>>

\* the run loop with --ngrok: `await sleep(1000)` is over, and the loop
\* condition `while (this.running)` is tested again
ngrokSleepOver ==
    /\ ~exited
    /\ pc["main"] = "ngrokSleep"
    /\ IF running
        THEN UNCHANGED <<pc, call, waitOn, restorePromise, shutdownPromise,
                        shuttingDown, hist>>
        ELSE shutdown("main")
    /\ UNCHANGED <<remote, env, argv, local, cnt, agentInstalled, actionWithCode,
                   createBackup, concurrency, polling, versionKnown, ready, running,
                   runPromise, invoker, watching, exited>>

WaitOutcomes == {"activation", "retry", "e503", "stop43", "error"}

\* faulty variant of waitCatch: the catch without its tests for the reserved
\* code 42 and for the 503, every exception but code 43 is rethrown
waitCatchRethrows(o) ==
    CASE o = "activation" -> "return"
      [] o = "stop43" -> "null"
      [] OTHER -> "throw"

\* what waitForActivations makes of the answer to one wait: it returns the
\* activation; on code 42 (or an empty list) it does nothing and goes round
\* again; on code 43 it returns null; a 503 is retried when the activation
\* list was polled; anything else is thrown as "Unexpected error"
waitCatch(o) ==
    CASE o = "activation" -> "return"
      [] o = "retry" -> "again"
      [] o = "stop43" -> "null"
      [] o = "e503" -> IF concurrency = FALSE THEN "again" ELSE "throw"
      [] OTHER -> "throw"

\* the answer to one wait: an activation (run it locally), nothing yet
\* (code 42 or an empty list), a 503, code 43 (return null), another error
waitAnsweredWith(o) ==
    /\ ~exited
    /\ pc["main"] = "wait"
    /\ CASE waitCatch(o) = "return" ->
               /\ pc' = [pc EXCEPT !["main"] = "exec"]
               /\ UNCHANGED <<call, waitOn, restorePromise, shutdownPromise,
                              shuttingDown, hist, local>>
          [] waitCatch(o) = "again" ->
               \* the concurrency agent's 42 and a 503 of the activation list
               \* go round the outer loop after a sleep; the activation-db
               \* poll sleeps inside its inner loop
               /\ pc' = [pc EXCEPT !["main"] =
                            IF concurrency = FALSE /\ o = "retry" THEN "listSleep" ELSE "sleep"]
               /\ UNCHANGED <<call, waitOn, restorePromise, shutdownPromise,
                              shuttingDown, hist, local>>
          [] OTHER ->
               \* `return null` ends _run, a throw leaves it: the finally
               /\ local' = [local EXCEPT !["main"] =
                                IF waitCatch(o) = "null" THEN "null" ELSE "err"]
               /\ shutdown("main")
    /\ UNCHANGED <<remote, env, argv, cnt, agentInstalled, actionWithCode,
                   createBackup, concurrency, polling, versionKnown, ready, running,
                   runPromise, invoker, watching, exited>>

waitAnswered == \E o \in WaitOutcomes : waitAnsweredWith(o)

\* sleep(1000) inside the activation-list loop is over: `while (true)` lists
\* the activations again, whatever the polling flag says
listSleepOver ==
    /\ ~exited
    /\ pc["main"] = "listSleep"
    /\ pc' = [pc EXCEPT !["main"] = "wait"]
    /\ UNCHANGED <<remote, env, argv, call, waitOn, local, cnt, agentInstalled,
                   actionWithCode, createBackup, shuttingDown, concurrency, polling,
                   restorePromise, versionKnown, ready, running, runPromise,
                   shutdownPromise, invoker, watching, exited, hist>>

\* sleep() at the end of a round of waitForActivations is over
waitRetried ==
    /\ ~exited
    /\ pc["main"] = "sleep"
    /\ waitForActivations
    /\ UNCHANGED <<remote, env, argv, local, cnt, agentInstalled, actionWithCode,
                   createBackup, concurrency, polling, versionKnown, ready, running,
                   runPromise, invoker, watching, exited>>

\* invoker.run() returned the local result: completeActivation sends it; or
\* the request to the container failed, and the exception leaves _run
\* through its finally
invokerRun ==
    /\ ~exited
    /\ pc["main"] = "exec"
    /\ \E threw \in BOOLEAN :
        IF threw
        THEN /\ local' = [local EXCEPT !["main"] = "err"]
             /\ shutdown("main")
        ELSE /\ pc' = [pc EXCEPT !["main"] = "complete"]
             /\ UNCHANGED <<call, waitOn, local, restorePromise, shutdownPromise,
                            shuttingDown, hist>>
    /\ UNCHANGED <<remote, env, argv, cnt, agentInstalled, actionWithCode,
                   createBackup, concurrency, polling, versionKnown, ready, running,
                   runPromise, invoker, watching, exited>>

\* how the agent answers the completion: it takes the result, or the invoke
\* fails with code 42, with code 43, with anything else
CompleteOutcomes == {"ok", "e42", "stop43", "error"}

\* faulty variant of completeCatch: code 42 ends the run loop as code 43 does
completeCatchStopsOn42(o) == o \notin {"e42", "stop43"}

\* the value completeActivation() returns: false on code 43 only; every other
\* exception is caught (and at most logged)
completeCatch(o) == o # "stop43"

\* completeActivation() returned: false ends the loop (`return` in _run, then
\* its finally), true goes on to the loop condition `while (this.running)`
completeActivationWith(o) ==
    /\ ~exited
    /\ pc["main"] = "complete"
    /\ IF ~completeCatch(o)
        THEN /\ local' = [local EXCEPT !["main"] = "false"]
             /\ shutdown("main")
        ELSE /\ local' = local
             /\ IF running THEN waitForActivations ELSE shutdown("main")
    /\ UNCHANGED <<remote, env, argv, cnt, agentInstalled, actionWithCode,
                   createBackup, concurrency, polling, versionKnown, ready, running,
                   runPromise, invoker, watching, exited>>

completeActivation == \E o \in CompleteOutcomes : completeActivationWith(o)

\* the shutdown() awaited by start()'s catch or by _run's finally is over:
\* start() rejects, or the promise of run() settles
mainResumed ==
    /\ ~exited
    /\ pc["main"] = "awaitShutdown"
    /\ shutdownSettled("main")
    /\ waitOn' = [waitOn EXCEPT !["main"] = "none"]
    /\ IF runPromise = "undef"
        THEN /\ pc' = [pc EXCEPT !["main"] = "rejected"]
             /\ UNCHANGED runPromise
        ELSE /\ pc' = [pc EXCEPT !["main"] =
                            IF local["main"] = "err" THEN "rejected" ELSE "finished"]
             /\ runPromise' = "settled"
    /\ UNCHANGED <<remote, env, argv, call, local, cnt, agentInstalled,
                   actionWithCode, createBackup, shuttingDown, concurrency, polling,
                   restorePromise, versionKnown, ready, running, shutdownPromise,
                   invoker, watching, exited, hist>>

\* ------------------------------------------------------------------------
\* The session
\* ------------------------------------------------------------------------

RestoreTasks == {"ow"} \cup SdRuns

\* ------------------------------------------------------------------------
\* The concurrent-instance agent (agent/agent-concurrency.js), its callers
\* and the debugger's run loop
\* ------------------------------------------------------------------------

\* number of invocations of the action by outside callers
MaxCalls == 3

\* the parameter x of an invocation ranges over 0 .. MaxParam
MaxParam == 1

\* $waitForActivation requests the client gave up on that are still running
MaxOrphans == 1

\* the deadline of a wait (one minute less ten seconds), counted in sleeps
WaitDeadline == 2

\* an invocation is named by its activation id (__OW_ACTIVATION_ID)
Callers == 1 .. MaxCalls

Params == 0 .. MaxParam

\* hit conditions (--condition): none, and expressions over the parameter x
Conditions == {"", "x > 0", "x", "true", "false", "nosuch.field"}

NoResult == [src |-> "none", val |-> 0]

\* what the local debug container answers for parameters p
LocalResult(p) == [src |-> "local", val |-> p]

\* what the backup action <name>_wskdebug_original answers for parameters p
OrigResult(p) == [src |-> "orig", val |-> p]

VARIABLES
    condition,       \* the $condition parameter of the agent
    activations,     \* the agent's queue of forwarded invocations
    completions,     \* the agent's map activation id -> result
    callers,         \* Callers -> [st, params, res]: the outside invocations
    dbg,             \* the run loop: [pc, id, params, result, elapsed]
    enqueued,        \* history: the ids newActivation has enqueued
    orphans,         \* number of $waitForActivation requests the client gave up on
    ahist            \* history: how often an id was handed out, run, lost, and
                     \* the ids in the order enqueued, shifted, received, completed

agentVars == <<condition, activations, completions, callers, dbg, enqueued,
               orphans, ahist>>

AgentInit ==
    /\ condition \in Conditions
    /\ activations = << >>
    /\ completions = [c \in Callers |-> NoResult]
    /\ callers = [c \in Callers |-> [st |-> "idle", params |-> 0, res |-> NoResult]]
    /\ dbg = [pc |-> "idle", id |-> 0, params |-> 0, result |-> NoResult, elapsed |-> 0]
    /\ enqueued = {}
    /\ orphans = 0
    /\ ahist = [handed |-> [c \in Callers |-> 0], executed |-> [c \in Callers |-> 0],
                orphaned |-> {}, enq |-> << >>, deq |-> << >>, got |-> << >>,
                done |-> << >>]

\* eval(condition) with the parameters in scope: a boolean, a number, or "throw"
Eval(cond, x) ==
    CASE cond = "x > 0" -> [t |-> "bool", b |-> x > 0, n |-> 0]
      [] cond = "x" -> [t |-> "num", b |-> FALSE, n |-> x]
      [] cond = "true" -> [t |-> "bool", b |-> TRUE, n |-> 0]
      [] cond = "false" -> [t |-> "bool", b |-> FALSE, n |-> 0]
      [] OTHER -> [t |-> "throw", b |-> FALSE, n |-> 0]

\* JavaScript truthiness of an evaluated condition
Truthy(v) == (v.t = "bool" /\ v.b) \/ (v.t = "num" /\ v.n # 0)

\* faulty variant of hit: a condition whose evaluation throws counts as a hit
hitOnThrow(x, cond) ==
    IF cond # ""
        THEN LET v == Eval(cond, x) IN IF v.t = "throw" THEN TRUE ELSE Truthy(v)
        ELSE TRUE

\* hit(): no condition always hits; a condition that throws does not hit
hit(x, cond) ==
    IF cond # ""
        THEN LET v == Eval(cond, x) IN IF v.t = "throw" THEN FALSE ELSE Truthy(v)
        ELSE TRUE

\* faulty variant of newActivation: unshift instead of push
newActivationUnshift(c, x) == <<[id |-> c, params |-> x]>> \o activations

\* newActivation(): the arguments with their activation id, enqueued
newActivation(c, x) == Append(activations, [id |-> c, params |-> x])

\* faulty variant of completionOf: the first result present in the map,
\* whatever id it was stored under
completionOfAny(id) ==
    IF \E j \in Callers : completions[j] # NoResult
        THEN completions[CHOOSE j \in Callers : completions[j] # NoResult]
        ELSE NoResult

\* the entry of the completions map waitForCompletion(id) looks at
completionOf(id) == completions[id]

\* doMain for a normal invocation c with parameter x: forward it to the
\* debugger, or, when the condition does not hit, invoke the backup action
doMain(c, x) ==
    /\ callers[c].st = "idle"
    /\ IF hit(x, condition)
        THEN /\ activations' = newActivation(c, x)
             /\ enqueued' = enqueued \cup {c}
             /\ ahist' = [ahist EXCEPT !.enq = Append(@, c)]
             /\ callers' = [callers EXCEPT ![c] = [st |-> "waiting", params |-> x,
                                                   res |-> NoResult]]
        ELSE /\ callers' = [callers EXCEPT ![c] = [st |-> "bypass", params |-> x,
                                                   res |-> NoResult]]
             /\ UNCHANGED <<activations, enqueued, ahist>>
    /\ UNCHANGED <<condition, completions, dbg, orphans>>

\* the blocking invoke of the backup action returns its result to the caller
originalReturns(c) ==
    /\ callers[c].st = "bypass"
    /\ callers' = [callers EXCEPT ![c].st = "returned",
                                  ![c].res = OrigResult(callers[c].params)]
    /\ UNCHANGED <<condition, activations, completions, dbg, enqueued, orphans, ahist>>

\* faulty variant of deleteCompletion: the entry stays in the map
keepCompletion(c) == completions

\* `delete completions[activationId]`
deleteCompletion(c) == [completions EXCEPT ![c] = NoResult]

\* waitForCompletion(id): once a result is stored for the id, take it out of
\* the map and return it to the caller
waitForCompletion(c) ==
    /\ callers[c].st = "waiting"
    /\ completionOf(c) # NoResult
    /\ callers' = [callers EXCEPT ![c].st = "returned", ![c].res = completionOf(c)]
    /\ completions' = deleteCompletion(c)
    /\ UNCHANGED <<condition, activations, dbg, enqueued, orphans, ahist>>

\* faulty variant of deadlinePassed: checkTimeout never throws
deadlineNever(e) == FALSE

\* `Date.now() >= deadline - 10*1000`, after e sleeps of the wait
deadlinePassed(e) == e >= WaitDeadline

\* the time of the wait after one more sleep(100)
Slept(e) == IF e < WaitDeadline THEN e + 1 ELSE e

\* the run loop sends $waitForActivation; waitForActivation() tests the
\* queue, on arrival and after every sleep that checkTimeout lets through:
\* it returns the head of the queue if there is one, else sleeps again
waitForActivation ==
    /\ dbg.pc \in {"idle", "polling"}
    /\ dbg.pc = "polling" => ~deadlinePassed(Slept(dbg.elapsed))
    /\ IF activations # << >>
        THEN /\ dbg' = [dbg EXCEPT !.pc = "exec", !.id = Head(activations).id,
                                   !.params = Head(activations).params,
                                   !.elapsed = 0]
             /\ activations' = Tail(activations)
             /\ ahist' = [ahist EXCEPT !.handed[Head(activations).id] = @ + 1,
                                        !.deq = Append(@, Head(activations).id),
                                        !.got = Append(@, Head(activations).id)]
        ELSE /\ dbg' = [dbg EXCEPT !.pc = "polling",
                                   !.elapsed = IF dbg.pc = "idle" THEN 0 ELSE Slept(@)]
             /\ UNCHANGED <<activations, ahist>>
    /\ UNCHANGED <<condition, completions, callers, enqueued, orphans>>

\* checkTimeout() after a sleep: past the deadline the wait fails with code
\* 42, whatever the queue holds, and the run loop starts over
checkTimeout ==
    /\ dbg.pc = "polling"
    /\ deadlinePassed(Slept(dbg.elapsed))
    /\ dbg' = [dbg EXCEPT !.pc = "idle", !.elapsed = 0]
    /\ UNCHANGED <<condition, activations, completions, callers, enqueued, orphans, ahist>>

\* the blocking invoke of $waitForActivation is answered without a result
\* (only an activation id: no response within the platform's minute); the
\* client ignores it and asks again, the agent's waitForActivation goes on
waitTimedOut ==
    /\ dbg.pc = "polling"
    /\ orphans < MaxOrphans
    /\ dbg' = [dbg EXCEPT !.pc = "idle", !.elapsed = 0]
    /\ orphans' = orphans + 1
    /\ UNCHANGED <<condition, activations, completions, callers, enqueued, ahist>>

\* a waitForActivation the client gave up on finds the queue non-empty: it
\* shifts the head and returns it as the result of its own activation
orphanTakes ==
    /\ orphans > 0
    /\ activations # << >>
    /\ activations' = Tail(activations)
    /\ orphans' = orphans - 1
    /\ ahist' = [ahist EXCEPT !.orphaned = @ \cup {Head(activations).id},
                               !.deq = Append(@, Head(activations).id)]
    /\ UNCHANGED <<condition, completions, callers, dbg, enqueued>>

\* a waitForActivation the client gave up on reaches its deadline (code 42)
orphanExpires ==
    /\ orphans > 0
    /\ orphans' = orphans - 1
    /\ UNCHANGED <<condition, activations, completions, callers, dbg, enqueued, ahist>>

\* _run: invoker.run(activation, id) returns the local result
debuggerRun ==
    /\ dbg.pc = "exec"
    /\ dbg' = [dbg EXCEPT !.pc = "complete", !.result = LocalResult(dbg.params)]
    /\ ahist' = [ahist EXCEPT !.executed[dbg.id] = @ + 1]
    /\ UNCHANGED <<condition, activations, completions, callers, enqueued, orphans>>

\* completeActivation(id, result) invokes the agent, whose complete() stores
\* the result under the id; the run loop goes on to the next wait
complete ==
    /\ dbg.pc = "complete"
    /\ completions' = [completions EXCEPT ![dbg.id] = dbg.result]
    /\ dbg' = [pc |-> "idle", id |-> 0, params |-> 0, result |-> NoResult, elapsed |-> 0]
    /\ ahist' = [ahist EXCEPT !.done = Append(@, dbg.id)]
    /\ UNCHANGED <<condition, activations, callers, enqueued, orphans>>

\* ------------------------------------------------------------------------
\* The tunnel agent's local listener (src/agents/ngrok.js)
\* ------------------------------------------------------------------------

\* number of HTTP requests that reach the listener
MaxReqs == 2

Reqs == 1 .. MaxReqs

\* the session's shared secret (crypto.randomBytes(32) as hex)
ngrokAuth == "secret"

\* what a request can carry: its Authorization header, its method, its body
AuthHeaders == {"secret", "wrong", "absent"}

Methods == {"POST", "GET"}

\* a JSON object {...params, $activationId}, text that is no JSON, JSON null
Bodies == {"object", "malformed", "null"}

NoReq == [st |-> "none", auth |-> "absent", method |-> "GET", body |-> "null",
          params |-> 0, status |-> 0, res |-> NoResult, ran |-> FALSE]

VARIABLES
    ngrokServer,     \* "none", "listening" (getAgent), "closed" (stop)
    reqs             \* Reqs -> the request and how far the handler got with it

tunnelVars == <<ngrokServer, reqs>>

TunnelInit ==
    /\ ngrokServer = "none"
    /\ reqs = [r \in Reqs |-> NoReq]

\* NgrokAgent.getAgent: the local server listens, the secret is drawn
getAgent ==
    /\ ngrokServer = "none"
    /\ ngrokServer' = "listening"
    /\ UNCHANGED reqs

\* faulty variant of authorized: the header is not compared
authorizedAny(h) == TRUE

\* `authHeader !== this.ngrokAuth` is false
authorized(h) == h = ngrokAuth

\* the response of the handler, sent with res.end()
Respond(r, code, result) ==
    reqs' = [reqs EXCEPT ![r].st = "done", ![r].status = code, ![r].res = result]

\* ngrokHandler(req, res), its synchronous part: 401 unless the secret
\* matches, 404 for another method than POST, else the body is collected
ngrokHandler(r, auth, method, body, p) ==
    /\ ngrokServer = "listening"
    /\ reqs[r].st = "none"
    /\ LET q == [NoReq EXCEPT !.auth = auth, !.method = method, !.body = body,
                              !.params = p] IN
       reqs' = [reqs EXCEPT ![r] =
                  IF ~authorized(auth) THEN [q EXCEPT !.st = "done", !.status = 401]
                  ELSE IF method # "POST" THEN [q EXCEPT !.st = "done", !.status = 404]
                  ELSE [q EXCEPT !.st = "body"]]
    /\ UNCHANGED ngrokServer

\* JSON.parse(body) and `params.$activationId` succeed
parses(body) == body = "object"

\* req.on('end'): the body is parsed; a body that does not parse (or is null)
\* throws into the catch and gets 400, else invoker.run is called
ngrokBodyEnd(r) ==
    /\ reqs[r].st = "body"
    /\ IF parses(reqs[r].body)
        THEN reqs' = [reqs EXCEPT ![r].st = "run", ![r].ran = TRUE]
        ELSE Respond(r, 400, NoResult)
    /\ UNCHANGED ngrokServer

\* invoker.run returned the local result: 200 with the result as JSON
ngrokRunReturns(r) ==
    /\ reqs[r].st = "run"
    /\ Respond(r, 200, LocalResult(reqs[r].params))
    /\ UNCHANGED ngrokServer

\* NgrokAgent.stop: the server is closed and takes no new request; requests
\* in flight are still answered
ngrokStop ==
    /\ ngrokServer = "listening"
    /\ ngrokServer' = "closed"
    /\ UNCHANGED reqs

\* the invoker.run calls in flight that the listener made
TunnelRuns == {r \in Reqs : reqs[r].st = "run"}

\* installAgent() with --ngrok, getAgent() after its awaits (listen, connect):
\* the backup write is sent and pushAgent begins with the version probe; when
\* stop() has set this.ngrokServer to null meanwhile, `this.ngrokServer.address()`
\* throws and installAgent fails
ngrokConnected ==
    /\ ~exited
    /\ pc["ag"] = "ngrok"
    /\ IF ngrokServer = "listening"
        THEN /\ createBackup' = "pending"
             /\ pc' = [pc EXCEPT !["ag"] = "ver", !["bk"] = "sent"]
             /\ call' = [call EXCEPT !["bk"] = createBackupCall,
                            !["ag"] = Request("version", "none", "none", 0, "version")]
        ELSE /\ pc' = [pc EXCEPT !["ag"] = "failed"]
             /\ UNCHANGED <<createBackup, call>>
    /\ UNCHANGED <<remote, env, argv, waitOn, local, cnt, agentInstalled,
                   actionWithCode, shuttingDown, concurrency, polling, restorePromise,
                   versionKnown, ready, running, runPromise, shutdownPromise,
                   invoker, watching, exited, hist>>

\* ------------------------------------------------------------------------
\* OpenWhiskInvoker.startContainer and the docker host (src/invoker.js)
\* ------------------------------------------------------------------------

\* number of containers that may be running on the host beforehand
MaxOld == 3

OldIds == 1 .. MaxOld

\* the container that startContainer creates
New == 0

\* org.apache.wskdebug.action of a container: this action's full name, another
\* action's, or no such label
Labels == {"this", "other", "none"}

\* the public port of a container: the debug port or some other port
Ports == {"debug", "free"}

NoContainer == [st |-> "absent", label |-> "none", port |-> "free"]

VARIABLES
    containers,   \* {New} \cup OldIds -> the container on the docker host
    portHeld,     \* a process that is no container listens on the debug port
    sc            \* startContainer: position, listed containers and their labels,
                  \* loop index, containers removed, port probe, error thrown;
                  \* stop: the handle this.container, where stop() is, the remove
                  \* requests and the stop() calls so far, the last answer

containerVars == <<containers, portHeld, sc>>

\* container c is running and publishes the debug port
Holds(c) == containers[c].st = "running" /\ containers[c].port = "debug"

\* nothing is started, the host runs nothing
ContainerIdle ==
    /\ containers = [c \in {New} \cup OldIds |-> NoContainer]
    /\ portHeld = FALSE
    /\ sc = [pc |-> "start", list |-> {}, labels |-> [c \in OldIds |-> "none"],
             i |-> 1, removed |-> {}, reachable |-> FALSE, err |-> "none",
             container |-> FALSE, stop |-> "idle", removes |-> 0, stops |-> 0,
             answer |-> "none"]

\* before startContainer: any containers left on the host, the debug port
\* bound by at most one of them or by one other process
ContainerInit ==
    /\ containers \in [{New} \cup OldIds ->
            {NoContainer} \cup [st : {"running"}, label : Labels, port : Ports]]
    /\ containers[New] = NoContainer
    /\ portHeld \in BOOLEAN
    /\ Cardinality({c \in OldIds : Holds(c)}) + (IF portHeld THEN 1 ELSE 0) <= 1
    /\ sc = [pc |-> "start", list |-> {}, labels |-> [c \in OldIds |-> "none"],
             i |-> 1, removed |-> {}, reachable |-> FALSE, err |-> "none",
             container |-> FALSE, stop |-> "idle", removes |-> 0, stops |-> 0,
             answer |-> "none"]

\* docker.listContainers(): the running containers
listContainers == {c \in OldIds : containers[c].st = "running"}

\* isPortReachable(this.debug.port)
isPortReachable == portHeld \/ \E c \in OldIds : Holds(c)

\* checkExistingContainers, first list: the snapshot the removal loop walks
checkExistingContainers ==
    /\ sc.pc = "start"
    /\ sc' = [sc EXCEPT !.pc = "removing", !.list = listContainers,
                        !.labels = [c \in OldIds |-> containers[c].label]]
    /\ UNCHANGED <<containers, portHeld>>

\* faulty variant of leftOver: only the first container of the action
leftOverFirstOnly(list) ==
    LET all == {c \in list : sc.labels[c] = "this"} IN
    {c \in all : \A d \in all : c <= d}

\* the listed containers whose label is this action's full name
leftOver(list) == {c \in list : sc.labels[c] = "this"}

\* one round of the removal loop: the next left-over container of the list is
\* removed by force; the removal of a container that is gone by now rejects
\* and startContainer throws. After the last one the port is probed
removeLeftOver ==
    /\ sc.pc = "removing"
    /\ LET todo == {c \in leftOver(sc.list) : c >= sc.i} IN
       IF todo = {}
       THEN /\ sc' = [sc EXCEPT !.pc = "portCheck"]
            /\ UNCHANGED containers
       ELSE LET c == CHOOSE x \in todo : \A y \in todo : x <= y IN
            IF containers[c].st = "running"
            THEN /\ containers' = [containers EXCEPT ![c] = NoContainer]
                 /\ sc' = [sc EXCEPT !.i = c + 1, !.removed = @ \cup {c}]
            ELSE /\ sc' = [sc EXCEPT !.pc = "failed", !.err = "remove"]
                 /\ UNCHANGED containers
    /\ UNCHANGED portHeld

\* `if (await isPortReachable(this.debug.port))`
portCheck ==
    /\ sc.pc = "portCheck"
    /\ sc' = [sc EXCEPT !.reachable = isPortReachable,
                        !.pc = IF isPortReachable THEN "portList" ELSE "create"]
    /\ UNCHANGED <<containers, portHeld>>

\* faulty variant of portInUse: only a container on the port is an error
portInUseByContainer ==
    LET on == {c \in listContainers : containers[c].port = "debug"} IN
    IF \E c \in on : containers[c].label # "none" THEN "portWskdebug"
    ELSE IF on # {} THEN "portContainer"
    ELSE "none"

\* the error thrown once the port was found reachable: a wskdebug container
\* of another action on it, another container on it, or anything else
portInUse ==
    LET on == {c \in listContainers : containers[c].port = "debug"} IN
    IF \E c \in on : containers[c].label # "none" THEN "portWskdebug"
    ELSE IF on # {} THEN "portContainer"
    ELSE "portProcess"

\* the second list and the throw
portTaken ==
    /\ sc.pc = "portList"
    /\ sc' = [sc EXCEPT !.err = portInUse,
                        !.pc = IF portInUse = "none" THEN "create" ELSE "failed"]
    /\ UNCHANGED <<containers, portHeld>>

\* docker.createContainer with this action's label and the debug port
createContainer ==
    /\ sc.pc = "create"
    /\ containers' = [containers EXCEPT
                         ![New] = [st |-> "created", label |-> "this", port |-> "debug"]]
    /\ sc' = [sc EXCEPT !.pc = "starting", !.container = TRUE]
    /\ UNCHANGED portHeld

\* container.start(): docker refuses when the port was bound meanwhile
containerStart ==
    /\ sc.pc = "starting"
    /\ IF isPortReachable
       THEN /\ sc' = [sc EXCEPT !.pc = "failed", !.err = "start"]
            /\ UNCHANGED containers
       ELSE /\ sc' = [sc EXCEPT !.pc = "done"]
            /\ containers' = [containers EXCEPT ![New].st = "running"]
    /\ UNCHANGED portHeld

\* the host: a container that was running exits on its own
containerExits(c) ==
    /\ containers[c].st = "running"
    /\ containers' = [containers EXCEPT ![c] = NoContainer]
    /\ UNCHANGED <<portHeld, sc>>

\* stop() calls made one after the other (the teardown awaits each)
MaxStops == 3

\* faulty variant of hasContainer: stop() without its test of the handle
hasContainerAlways == TRUE

\* `if (this.container)`
hasContainer == sc.container

\* stop() is called once startContainer is over: with a handle it asks docker
\* to remove the container by force, without one it returns at once
invokerStop ==
    /\ sc.pc \in {"done", "failed"}
    /\ sc.stop = "idle"
    /\ sc.stops < MaxStops
    /\ IF hasContainer
        THEN sc' = [sc EXCEPT !.stop = "removing", !.removes = @ + 1]
        ELSE sc' = [sc EXCEPT !.stops = @ + 1]
    /\ UNCHANGED <<containers, portHeld>>

\* how docker answers container.remove({force: true}): 404 for a container
\* that is gone, else the removal or an error of another kind
RemoveAnswers == IF containers[New].st = "absent" THEN {"e404"} ELSE {"ok", "error"}

\* the answer to the removal: a 404 is ignored, another error is logged; in
\* every case the handle is deleted and stop() returns
containerRemove ==
    /\ sc.stop = "removing"
    /\ \E o \in RemoveAnswers :
        /\ containers' = IF o = "ok" THEN [containers EXCEPT ![New] = NoContainer]
                         ELSE containers
        /\ sc' = [sc EXCEPT !.stop = "idle", !.container = FALSE, !.stops = @ + 1,
                            !.answer = o]
    /\ UNCHANGED portHeld

\* the host: some process binds the free debug port, or the one holding it ends
portChanges ==
    /\ sc.pc \notin {"done", "failed"}
    /\ IF portHeld THEN portHeld' = FALSE
       ELSE ~isPortReachable /\ containers[New].st # "running" /\ portHeld' = TRUE
    /\ UNCHANGED <<containers, sc>>

\* ------------------------------------------------------------------------
\* wskprops.get(): the credentials of the session (src/wskprops.js)
\* ------------------------------------------------------------------------

\* the keys of a properties object that matter here
PropKeys == {"apihost", "auth", "namespace", "api_key"}

\* the environment variables read
EnvNames == {"AIO_runtime_auth", "AIO_runtime_namespace",
             "OW_APIHOST", "OW_AUTH", "OW_NAMESPACE"}

\* a property of an object: no such key, a key holding undefined, or a string
\* named after where it came from
PropValues == {"absent", "undefined", "file", "aio", "ow", "https://adobeioruntime.net"}

VARIABLES
    wskFile,    \* PropKeys -> what the wskprops file sets ("absent": no such line)
    procEnv,    \* EnvNames -> the variable's value, or "unset"
    props       \* PropKeys -> the object get() returned; NoProps before the call

propsVars == <<wskFile, procEnv, props>>

\* get() has not returned yet
NoProps == [k \in PropKeys |-> "none"]

\* no file, no variable, get() not called
PropsIdle ==
    /\ wskFile = [k \in PropKeys |-> "absent"]
    /\ procEnv = [n \in EnvNames |-> "unset"]
    /\ props = NoProps

\* any file and any environment
PropsInit ==
    /\ wskFile \in [PropKeys -> {"absent", "file"}]
    /\ procEnv \in [EnvNames -> {"unset", "set"}]
    /\ props = NoProps

\* Object.assign(target, source): every own key of source, also one that
\* holds undefined, replaces the target's
ObjectAssign(target, source) ==
    [k \in PropKeys |-> IF source[k] # "absent" THEN source[k] ELSE target[k]]

\* getWskProps(): the lines of the file, keys in lower case
getWskProps == wskFile

\* getAioEnvProps(): nothing unless AIO_runtime_auth is set; then the fixed
\* host, the auth, and process.env.AIO_runtime_namespace whatever it is
getAioEnvProps ==
    IF procEnv["AIO_runtime_auth"] = "set"
    THEN [k \in PropKeys |->
            CASE k = "apihost" -> "https://adobeioruntime.net"
              [] k = "auth" -> "aio"
              [] k = "namespace" ->
                    IF procEnv["AIO_runtime_namespace"] = "set" THEN "aio" ELSE "undefined"
              [] OTHER -> "absent"]
    ELSE [k \in PropKeys |-> "absent"]

\* getWskEnvProps(): each OW_* variable that is set, under its name without
\* the prefix, in lower case
getWskEnvProps ==
    [k \in PropKeys |->
        CASE k = "apihost" /\ procEnv["OW_APIHOST"] = "set" -> "ow"
          [] k = "auth" /\ procEnv["OW_AUTH"] = "set" -> "ow"
          [] k = "namespace" /\ procEnv["OW_NAMESPACE"] = "set" -> "ow"
          [] OTHER -> "absent"]

\* `if (props.auth)`
hasAuth(p) == p["auth"] \notin {"absent", "undefined"}

\* wskprops.get(): the three sources merged, then auth renamed to api_key
get ==
    /\ props = NoProps
    /\ LET merged == ObjectAssign(ObjectAssign(getWskProps, getAioEnvProps),
                                  getWskEnvProps) IN
       props' = IF hasAuth(merged)
                THEN [merged EXCEPT !["api_key"] = merged["auth"], !["auth"] = "absent"]
                ELSE merged
    /\ UNCHANGED <<wskFile, procEnv>>

\* ------------------------------------------------------------------------
\* The log-record agent: the activation records of <action>_wskdebug_invoked
\* and the poll of AgentMgr.waitForActivations (src/index.js)
\* ------------------------------------------------------------------------

\* number of "invoked" records the agent writes
MaxRecords == 3

\* the clock (Date.now(), the start time of a record) runs from 0 to MaxNow
MaxNow == 3

RecordIds == 1 .. MaxRecords

VARIABLES
    records,         \* the records written so far: record i has start time records[i]
    now,             \* the clock
    since,           \* `const since = Date.now()` of the wait in progress
    activationsSeen, \* ids of the records waitForActivations returned
    returned,        \* RecordIds -> how often waitForActivations returned it
    lpc              \* "off", or where the run loop is: "idle", "list", "exec"

logVars == <<records, now, since, activationsSeen, returned, lpc>>

LogIdle ==
    /\ records = << >>
    /\ now = 0
    /\ since = 0
    /\ activationsSeen = {}
    /\ returned = [i \in RecordIds |-> 0]
    /\ lpc = "off"

\* run() has been called: the run loop is about to call waitForActivations
LogInit ==
    /\ records = << >>
    /\ now = 0
    /\ since = 0
    /\ activationsSeen = {}
    /\ returned = [i \in RecordIds |-> 0]
    /\ lpc = "idle"

\* the agent, invoked in the cloud, invokes <action>_wskdebug_invoked with the
\* parameters: the platform stores an activation record, started now
agentWritesRecord ==
    /\ lpc # "off"
    /\ Len(records) < MaxRecords
    /\ records' = Append(records, now)
    /\ UNCHANGED <<now, since, activationsSeen, returned, lpc>>

\* a millisecond passes
timePasses ==
    /\ lpc # "off"
    /\ now < MaxNow
    /\ now' = now + 1
    /\ UNCHANGED <<records, since, activationsSeen, returned, lpc>>

\* waitForActivations() is called, activation-db branch: `since = Date.now()`
pollStarts ==
    /\ lpc = "idle"
    /\ since' = now
    /\ lpc' = "list"
    /\ UNCHANGED <<records, now, activationsSeen, returned>>

\* wsk.activations.list({since, limit: 1}): of the records started at `since`
\* or later the most recent one, as a list of at most one id
activationsList ==
    LET late == {i \in 1 .. Len(records) : records[i] >= since} IN
    IF late = {} THEN << >>
    ELSE <<CHOOSE i \in late : \A j \in late : j <= i>>

\* one round of the inner `while (true)`: a listed record that was not seen
\* is marked seen and returned to the run loop, which runs it locally;
\* otherwise sleep(1000) and list again
pollLists ==
    /\ lpc = "list"
    /\ LET listed == activationsList IN
       IF Len(listed) >= 1 /\ listed[1] \notin activationsSeen
       THEN /\ activationsSeen' = activationsSeen \cup {listed[1]}
            /\ returned' = [returned EXCEPT ![listed[1]] = @ + 1]
            /\ lpc' = "exec"
       ELSE UNCHANGED <<activationsSeen, returned, lpc>>
    /\ UNCHANGED <<records, now, since>>

\* invoker.run and completeActivation are over: the run loop waits again
localRunDone ==
    /\ lpc = "exec"
    /\ lpc' = "idle"
    /\ UNCHANGED <<records, now, since, activationsSeen, returned>>

\* ------------------------------------------------------------------------
\* OpenWhiskInvoker.init and prepare (src/invoker.js)
\* ------------------------------------------------------------------------

MAX_INIT_RETRY_MS == 20000

INIT_RETRY_DELAY_MS == 200

\* `const RETRIES = MAX_INIT_RETRY_MS / INIT_RETRY_DELAY_MS`
RETRIES == MAX_INIT_RETRY_MS \div INIT_RETRY_DELAY_MS

\* what one POST /init comes to: the connection is refused (the server in
\* the container is not up yet), or the container answers with a status
FetchOutcomes == {"refused", "s200", "s502", "s503"}

VARIABLES
    ini,    \* init: [pc, attempt, t, last, err]
    pre     \* prepare: the options and the action, and what prepare made of them

invokerVars == <<ini, pre>>

\* the `error` argument of retryOn: null when a response arrived
FetchError(o) == IF o = "refused" THEN "error" ELSE "null"

\* retryOn(attempt, error): `error !== null && attempt < RETRIES`
retryOn(attempt, error) == error # "null" /\ attempt < RETRIES

\* init() has sent its first POST /init
InitBegun ==
    ini = [pc |-> "fetching", attempt |-> 0, t |-> 0, last |-> "none", err |-> "none"]

\* one POST /init is over: fetch-retry asks retryOn; a retry waits for
\* retryDelay, an error that is not retried rejects, a response that is not
\* retried resolves, and init throws on status 502
initFetch(o) ==
    /\ ini.pc = "fetching"
    /\ ini' = [ini EXCEPT
            !.last = o,
            !.pc = IF retryOn(ini.attempt, FetchError(o)) THEN "delay"
                   ELSE IF FetchError(o) # "null" \/ o = "s502" THEN "rejected"
                   ELSE "resolved",
            !.err = IF retryOn(ini.attempt, FetchError(o)) THEN "none"
                    ELSE IF FetchError(o) # "null" THEN "network"
                    ELSE IF o = "s502" THEN "init502"
                    ELSE "none"]
    /\ UNCHANGED pre

\* retryDelay is over: the next attempt is sent
retryDelayOver ==
    /\ ini.pc = "delay"
    /\ ini' = [ini EXCEPT !.pc = "fetching", !.attempt = @ + 1,
                          !.t = @ + INIT_RETRY_DELAY_MS]
    /\ UNCHANGED pre

\* the kinds of an action: one the kinds table knows, one it does not, and
\* blackbox (a docker action)
ActionKinds == {"nodejs:10", "custom:1", "blackbox"}

\* `a || b` over values of which "none" stands for undefined
Or(a, b) == IF a # "none" THEN a ELSE b

\* getImageForKind(kind): the image of the kinds table, undefined for a kind
\* the table does not know
getImageForKind(kind) == IF kind = "nodejs:10" THEN "kindImage" ELSE "none"

\* this.debug, the debug instructions of the kind ({} when there are none)
debugOf(kind) ==
    IF kind = "nodejs:10" THEN [port |-> "kindPort", command |-> "kindCommand"]
    ELSE [port |-> "none", command |-> "none"]

\* the options (--kind, --image, --port, --internal-port, --command) and the
\* exec section of the action
PrepareInputs ==
    [kind : {"none", "nodejs:10", "custom:1"}, actionKind : ActionKinds,
     image : {"none", "optImage"}, actionImage : {"none", "actionImage"},
     port : {"none", "optPort"}, internalPort : {"none", "optInternalPort"},
     command : {"none", "optCommand"}]

NoPrepared == [st |-> "none", err |-> "none", kind |-> "none", image |-> "none",
               internalPort |-> "none", port |-> "none", command |-> "none"]

\* prepare() has thrown e
Thrown(e) == [NoPrepared EXCEPT !.st = "error", !.err = e]

\* faulty variant of debugPort: the internal-port option is not consulted
debugPortNoFallback(in, kind) == Or(in.port, debugOf(kind).port)

\* `this.port || this.internalPort || resolveValue(this.debug.port, this)`
debugPort(in, kind) == Or(in.port, Or(in.internalPort, debugOf(kind).port))

\* prepare(), in the order of its statements
prepared(in) ==
    LET kind == Or(in.kind, in.actionKind)
        image == Or(in.image, Or(in.actionImage, getImageForKind(kind)))
        internalPort == Or(in.internalPort, debugOf(kind).port)
        port == debugPort(in, kind)
        command == Or(in.command, debugOf(kind).command) IN
    IF kind = "blackbox" THEN Thrown("blackbox")
    ELSE IF image = "none" THEN Thrown("image")
    ELSE IF port = "none" THEN Thrown("port")
    ELSE IF internalPort = "none" THEN Thrown("internalPort")
    ELSE IF command = "none" THEN Thrown("command")
    ELSE [st |-> "ok", err |-> "none", kind |-> kind, image |-> image,
          internalPort |-> internalPort, port |-> port, command |-> command]

\* neither init nor prepare is running
InvokerIdle ==
    /\ ini = [pc |-> "off", attempt |-> 0, t |-> 0, last |-> "none", err |-> "none"]
    /\ pre = [in |-> [kind |-> "none", actionKind |-> "nodejs:10", image |-> "none",
                      actionImage |-> "none", port |-> "none", internalPort |-> "none",
                      command |-> "none"],
              out |-> NoPrepared]

\* `await this.invoker.prepare()`
prepare ==
    /\ pre.out.st = "none"
    /\ pre' = [pre EXCEPT !.out = prepared(pre.in)]
    /\ UNCHANGED ini

\* start() goes on to invoker.startContainer() once prepare() has returned
startAfterPrepare ==
    /\ pre.out.st = "ok"
    /\ pre' = [pre EXCEPT !.out.st = "started"]
    /\ UNCHANGED ini

\* ------------------------------------------------------------------------
\* Specifications
\* ------------------------------------------------------------------------

vars == <<sessionVars, agentVars, tunnelVars, containerVars, propsVars, logVars, invokerVars>>

\* what a step of the session, of the agent, of the listener leaves alone
otherThanSession == <<agentVars, tunnelVars, containerVars, propsVars, logVars, invokerVars>>

otherThanAgent == <<sessionVars, tunnelVars, containerVars, propsVars, logVars, invokerVars>>

otherThanTunnel == <<sessionVars, agentVars, containerVars, propsVars, logVars, invokerVars>>

otherThanContainer == <<sessionVars, agentVars, tunnelVars, propsVars, logVars, invokerVars>>

otherThanProps == <<sessionVars, agentVars, tunnelVars, containerVars, logVars, invokerVars>>

otherThanLog == <<sessionVars, agentVars, tunnelVars, containerVars, propsVars,
                  invokerVars>>

\* one debugging session; the agent's variables rest
Init ==
    /\ SessionInit /\ ~argv.ngrok
    /\ AgentInit /\ condition = "" /\ TunnelInit /\ ContainerIdle /\ PropsIdle /\ LogIdle /\ InvokerIdle

Next ==
    \/ start /\ UNCHANGED otherThanSession
    \/ peekAction /\ UNCHANGED otherThanSession
    \/ startTasks /\ UNCHANGED otherThanSession
    \/ startContainer /\ UNCHANGED otherThanSession
    \/ readActionDone /\ UNCHANGED otherThanSession
    \/ init /\ UNCHANGED otherThanSession
    \/ startJoined /\ UNCHANGED otherThanSession
    \/ installAgentStep /\ UNCHANGED otherThanSession
    \/ createBackupDone /\ UNCHANGED otherThanSession
    \/ agentJoined /\ UNCHANGED otherThanSession
    \/ run /\ UNCHANGED otherThanSession
    \/ waitAnswered /\ UNCHANGED otherThanSession
    \/ listSleepOver /\ UNCHANGED otherThanSession
    \/ waitRetried /\ UNCHANGED otherThanSession
    \/ invokerRun /\ UNCHANGED otherThanSession
    \/ completeActivation /\ UNCHANGED otherThanSession
    \/ mainResumed /\ UNCHANGED otherThanSession
    \/ stop /\ UNCHANGED otherThanSession
    \/ kill /\ UNCHANGED otherThanSession
    \/ \E t \in {"stop", "kill"} : Resumed(t) /\ UNCHANGED otherThanSession
    \/ ProcessExit /\ UNCHANGED otherThanSession
    \/ \E t \in RestoreTasks : RestoreStep(t) /\ UNCHANGED otherThanSession
    \/ \E t \in RestoreTasks : RestoreJoined(t) /\ UNCHANGED otherThanSession
    \/ \E k \in SdRuns : SdBackupSettled(k) /\ UNCHANGED otherThanSession
    \/ \E k \in SdRuns : SdContainerStopped(k) /\ UNCHANGED otherThanSession
    \/ \E k \in SdRuns : SdWatcherStopped(k) /\ UNCHANGED otherThanSession
    \/ \E t \in Tasks : Server(t) /\ UNCHANGED otherThanSession

Spec == Init /\ [][Next]_vars

\* the agent, its callers and the run loop; the session's variables rest
\* the session at rest: a deployed action, nothing started
SessionIdle ==
    /\ SessionInit
    /\ remote["action"] = "orig" /\ remote["backup"] = "none"
    /\ env = [concurrencySupported |-> TRUE, backupWriteOk |-> TRUE]
    /\ argv = [cleanup |-> FALSE, disableConcurrency |-> FALSE, ngrok |-> FALSE]

InitAgent ==
    /\ AgentInit
    /\ TunnelInit
    /\ SessionIdle
    /\ ContainerIdle
    /\ PropsIdle /\ LogIdle /\ InvokerIdle

NextAgent ==
    \/ \E c \in Callers, x \in Params : doMain(c, x) /\ UNCHANGED otherThanAgent
    \/ \E c \in Callers : originalReturns(c) /\ UNCHANGED otherThanAgent
    \/ \E c \in Callers : waitForCompletion(c) /\ UNCHANGED otherThanAgent
    \/ waitForActivation /\ UNCHANGED otherThanAgent
    \/ checkTimeout /\ UNCHANGED otherThanAgent
    \/ waitTimedOut /\ UNCHANGED otherThanAgent
    \/ orphanTakes /\ UNCHANGED otherThanAgent
    \/ orphanExpires /\ UNCHANGED otherThanAgent
    \/ debuggerRun /\ UNCHANGED otherThanAgent
    \/ complete /\ UNCHANGED otherThanAgent

SpecAgent == InitAgent /\ [][NextAgent]_vars

\* the timer of the sleeping wait fires: `await sleep(100)` is over
WaitWakes ==
    \/ dbg.pc = "polling" /\ waitForActivation /\ UNCHANGED otherThanAgent
    \/ checkTimeout /\ UNCHANGED otherThanAgent

\* the timer of a wait the client gave up on fires
OrphanWakes ==
    \/ orphanTakes /\ UNCHANGED otherThanAgent
    \/ orphanExpires /\ UNCHANGED otherThanAgent

\* the agent with its timers: a sleep of 100 ms ends
SpecAgentFair == SpecAgent /\ WF_vars(WaitWakes) /\ WF_vars(OrphanWakes)

\* the tunnel agent's listener and the requests reaching it
InitTunnel ==
    /\ TunnelInit
    /\ SessionIdle
    /\ AgentInit /\ condition = ""
    /\ ContainerIdle
    /\ PropsIdle /\ LogIdle /\ InvokerIdle

NextTunnel ==
    \/ getAgent /\ UNCHANGED otherThanTunnel
    \/ \E r \in Reqs, a \in AuthHeaders, m \in Methods, b \in Bodies, p \in Params :
            ngrokHandler(r, a, m, b, p) /\ UNCHANGED otherThanTunnel
    \/ \E r \in Reqs : ngrokBodyEnd(r) /\ UNCHANGED otherThanTunnel
    \/ \E r \in Reqs : ngrokRunReturns(r) /\ UNCHANGED otherThanTunnel
    \/ ngrokStop /\ UNCHANGED otherThanTunnel

SpecTunnel == InitTunnel /\ [][NextTunnel]_vars

\* startContainer on a host with containers left over; the rest is at rest
InitContainer ==
    /\ ContainerInit
    /\ SessionIdle
    /\ AgentInit /\ condition = ""
    /\ TunnelInit
    /\ PropsIdle /\ LogIdle /\ InvokerIdle

NextContainer ==
    \/ checkExistingContainers /\ UNCHANGED otherThanContainer
    \/ removeLeftOver /\ UNCHANGED otherThanContainer
    \/ portCheck /\ UNCHANGED otherThanContainer
    \/ portTaken /\ UNCHANGED otherThanContainer
    \/ createContainer /\ UNCHANGED otherThanContainer
    \/ containerStart /\ UNCHANGED otherThanContainer
    \/ \E c \in {New} \cup OldIds : containerExits(c) /\ UNCHANGED otherThanContainer
    \/ invokerStop /\ UNCHANGED otherThanContainer
    \/ containerRemove /\ UNCHANGED otherThanContainer
    \/ portChanges /\ UNCHANGED otherThanContainer

SpecContainer == InitContainer /\ [][NextContainer]_vars

\* one call of wskprops.get() for any file and environment; the rest is at rest
InitProps ==
    /\ PropsInit
    /\ SessionIdle
    /\ AgentInit /\ condition = ""
    /\ TunnelInit
    /\ ContainerIdle
    /\ LogIdle /\ InvokerIdle

NextProps == get /\ UNCHANGED otherThanProps

SpecProps == InitProps /\ [][NextProps]_vars

\* The steps the event loop and the platform take on their own: every
\* continuation that is ready runs, every timer fires, every request is
\* answered. Not among them: the user's stop() and kill(), and an answer to a
\* wait that carries an activation or an error, which nobody owes the
\* debugger; a wait is owed only the answer "nothing yet".

\* a session with --ngrok: start(), the listener, the activations that the
\* deployed tunnel agent forwards to it, and the teardown
InitTunnelSession ==
    /\ SessionInit
    /\ env.concurrencySupported
    /\ argv = [cleanup |-> FALSE, disableConcurrency |-> FALSE, ngrok |-> TRUE]
    /\ AgentInit /\ condition = ""
    /\ TunnelInit
    /\ ContainerIdle
    /\ PropsIdle /\ LogIdle /\ InvokerIdle

\* the tunnel agent, once deployed in the slot of the action, POSTs every
\* activation it gets to the listener, with the secret it was given
forwards(r) ==
    /\ remote["action"] = "agentN"
    /\ \E p \in Params : ngrokHandler(r, ngrokAuth, "POST", "object", p)

NextTunnelSession ==
    \/ start /\ UNCHANGED otherThanSession
    \/ peekAction /\ UNCHANGED otherThanSession
    \/ startTasks /\ UNCHANGED otherThanSession
    \/ startContainer /\ UNCHANGED otherThanSession
    \/ readActionDone /\ UNCHANGED otherThanSession
    \/ init /\ UNCHANGED otherThanSession
    \/ /\ startJoined
       \* installAgent calls getAgent(), which creates the listener at once
       /\ IF pc'["ag"] = "ngrok" THEN getAgent ELSE UNCHANGED tunnelVars
       /\ UNCHANGED <<agentVars, containerVars, propsVars, logVars, invokerVars>>
    \/ ngrokConnected /\ UNCHANGED otherThanSession
    \/ installAgentStep /\ UNCHANGED otherThanSession
    \/ createBackupDone /\ UNCHANGED otherThanSession
    \/ agentJoined /\ UNCHANGED otherThanSession
    \/ run /\ UNCHANGED otherThanSession
    \/ ngrokSleepOver /\ UNCHANGED otherThanSession
    \/ mainResumed /\ UNCHANGED otherThanSession
    \/ stop /\ UNCHANGED otherThanSession
    \/ kill /\ UNCHANGED otherThanSession
    \/ \E t \in {"stop", "kill"} : Resumed(t) /\ UNCHANGED otherThanSession
    \/ ProcessExit /\ UNCHANGED otherThanSession
    \/ \E t \in RestoreTasks : RestoreStep(t) /\ UNCHANGED otherThanSession
    \/ \E t \in RestoreTasks : RestoreJoined(t) /\ UNCHANGED otherThanSession
    \/ \E k \in SdRuns : SdBackupSettled(k) /\ UNCHANGED otherThanSession
    \/ \E k \in SdRuns : SdContainerStopped(k) /\ UNCHANGED otherThanSession
    \/ \E k \in SdRuns : SdWatcherStopped(k) /\ UNCHANGED otherThanSession
    \/ \E t \in Tasks : Server(t) /\ UNCHANGED otherThanSession
    \/ \E k \in SdRuns :
            /\ SdNgrokStopped(k)
            /\ IF ngrokServer = "listening" THEN ngrokStop ELSE UNCHANGED tunnelVars
            /\ UNCHANGED <<agentVars, containerVars, propsVars, logVars, invokerVars>>
    \/ \E r \in Reqs : forwards(r) /\ UNCHANGED otherThanTunnel
    \/ \E r \in Reqs : ngrokBodyEnd(r) /\ UNCHANGED otherThanTunnel
    \/ \E r \in Reqs : ngrokRunReturns(r) /\ UNCHANGED otherThanTunnel

SpecTunnelSession == InitTunnelSession /\ [][NextTunnelSession]_vars

\* init() against a container that comes up late or answers with an error
InitRetry ==
    /\ InitBegun
    /\ pre = [in |-> [kind |-> "none", actionKind |-> "nodejs:10", image |-> "none",
                      actionImage |-> "none", port |-> "none", internalPort |-> "none",
                      command |-> "none"],
              out |-> NoPrepared]
    /\ SessionIdle
    /\ AgentInit /\ condition = ""
    /\ TunnelInit
    /\ ContainerIdle
    /\ PropsIdle /\ LogIdle

otherThanInvoker == <<sessionVars, agentVars, tunnelVars, containerVars, propsVars, logVars>>

NextRetry ==
    \/ \E o \in FetchOutcomes : initFetch(o) /\ UNCHANGED otherThanInvoker
    \/ retryDelayOver /\ UNCHANGED otherThanInvoker

SpecInitRetry == InitRetry /\ [][NextRetry]_vars

\* prepare() for any options and any action
InitPrepare ==
    /\ ini = [pc |-> "off", attempt |-> 0, t |-> 0, last |-> "none", err |-> "none"]
    /\ pre \in [in : PrepareInputs, out : {NoPrepared}]
    /\ SessionIdle
    /\ AgentInit /\ condition = ""
    /\ TunnelInit
    /\ ContainerIdle
    /\ PropsIdle /\ LogIdle

NextPrepare ==
    \/ prepare /\ UNCHANGED otherThanInvoker
    \/ startAfterPrepare /\ UNCHANGED otherThanInvoker

SpecPrepare == InitPrepare /\ [][NextPrepare]_vars

\* the poll of the log-record agent's activation records
InitLog ==
    /\ LogInit /\ InvokerIdle
    /\ SessionIdle
    /\ AgentInit /\ condition = ""
    /\ TunnelInit
    /\ ContainerIdle
    /\ PropsIdle

\* the steps of the run loop
LogRunLoop ==
    \/ pollStarts /\ UNCHANGED otherThanLog
    \/ pollLists /\ UNCHANGED otherThanLog
    \/ localRunDone /\ UNCHANGED otherThanLog

NextLog ==
    \/ agentWritesRecord /\ UNCHANGED otherThanLog
    \/ timePasses /\ UNCHANGED otherThanLog
    \/ LogRunLoop

SpecLog == InitLog /\ [][NextLog]_vars

\* the run loop goes on as long as the session runs; when the agent is
\* invoked and how fast time passes is not up to the program
SpecLogFair == SpecLog /\ WF_vars(LogRunLoop)

\* the run loop's own steps
RunLoopScheduled ==
    \/ waitAnsweredWith("retry") /\ UNCHANGED otherThanSession
    \/ listSleepOver /\ UNCHANGED otherThanSession
    \/ waitRetried /\ UNCHANGED otherThanSession
    \/ invokerRun /\ UNCHANGED otherThanSession
    \/ completeActivation /\ UNCHANGED otherThanSession

\* the steps of startup, of the teardowns and restores, of stop() and kill()
\* once called, and of the platform
Scheduled ==
    \/ start /\ UNCHANGED otherThanSession
    \/ peekAction /\ UNCHANGED otherThanSession
    \/ startTasks /\ UNCHANGED otherThanSession
    \/ startContainer /\ UNCHANGED otherThanSession
    \/ readActionDone /\ UNCHANGED otherThanSession
    \/ init /\ UNCHANGED otherThanSession
    \/ startJoined /\ UNCHANGED otherThanSession
    \/ installAgentStep /\ UNCHANGED otherThanSession
    \/ createBackupDone /\ UNCHANGED otherThanSession
    \/ agentJoined /\ UNCHANGED otherThanSession
    \/ run /\ UNCHANGED otherThanSession
    \/ mainResumed /\ UNCHANGED otherThanSession
    \/ \E t \in {"stop", "kill"} : Resumed(t) /\ UNCHANGED otherThanSession
    \/ ProcessExit /\ UNCHANGED otherThanSession
    \/ \E t \in RestoreTasks : RestoreStep(t) /\ UNCHANGED otherThanSession
    \/ \E t \in RestoreTasks : RestoreJoined(t) /\ UNCHANGED otherThanSession
    \/ \E k \in SdRuns : SdBackupSettled(k) /\ UNCHANGED otherThanSession
    \/ \E k \in SdRuns : SdContainerStopped(k) /\ UNCHANGED otherThanSession
    \/ \E k \in SdRuns : SdWatcherStopped(k) /\ UNCHANGED otherThanSession
    \/ \E t \in Tasks : Server(t) /\ UNCHANGED otherThanSession

\* the session under that scheduling: neither the run loop nor the other
\* tasks are starved
SpecFair == Init /\ [][Next]_vars /\ WF_vars(RunLoopScheduled) /\ WF_vars(Scheduled)

\* ------------------------------------------------------------------------
\* Properties of the session (Spec)
\* ------------------------------------------------------------------------

\* installAgent completed, then the session's teardown began and has completed
TornDown == "sd1" \in hist.sdAfterInstall /\ pc["sd1"] = "done"

\* C1: after installAgent completed and the teardown completed, with cleanup
\* unset, the action slot holds the original and the backup slot exists.
\* Stated as the claim states it; it does not hold: a rejected backup write
\* makes AgentMgr.shutdown throw at `await this.createBackup` and skip the restore
C1_RestoredAfterTeardown ==
    (TornDown /\ ~argv.cleanup) =>
        (remote["action"] = "orig" /\ remote["backup"] # "none")

\* C2 as stated: _shutdown is executed at most once in a session, however
\* often shutdown() is triggered.  It does not hold: shutdown() deletes its
\* promise when the run is over, and a later trigger starts another run
C2_ShutdownOncePerSession == Cardinality(SdStarted) <= 1

\* C2, as the code has it: at most one _shutdown is in flight at any time, it
\* is the one shutdownPromise holds, and every caller of shutdown() awaits a
\* run that was started (triggers that overlap share one run)
C2_ShutdownSingleFlight ==
    /\ Cardinality(SdActive) <= 1
    /\ \A k \in SdActive : shutdownPromise = k
    /\ shutdownInFlight => shutdownPromise \in SdActive
    /\ \A t \in Tasks : pc[t] = "awaitShutdown" => waitOn[t] \in SdStarted

\* two triggers (of stop, kill, the run loop's exit, start's error path) await
\* the same _shutdown in flight
C2_TwoTriggersOneRun ==
    \E k \in SdActive :
        Cardinality({t \in Tasks : pc[t] = "awaitShutdown" /\ waitOn[t] = k}) >= 2

\* C3: a restoreAction() call made while a restore is in flight sends no
\* request of its own and waits for that restore: at most one _restoreAction
\* runs at a time, and the updates of the action slot and the deletes of the
\* backup never outnumber the restores started (joining calls add none)
C3_RestoreJoinsInFlight ==
    /\ Cardinality({t \in RestoreTasks : InRestore(t)}) <= 1
    /\ \A t \in RestoreTasks : InRestore(t) => restorePromise = t
    /\ \A t \in RestoreTasks : pc[t] = "rjoin" =>
            /\ call[t] = NoCall
            /\ waitOn[t] \in RestoreTasks \ {t}
            /\ InRestore(waitOn[t]) => restorePromise = waitOn[t]
    /\ Issued("restoreUpd") <= hist.restores
    /\ Issued("delBackup") <= hist.restores

\* two restoreAction() calls overlapped (one joined the other) and both are
\* over: one restore was started and one update of the action slot was made
C3_JoinedRestoreDone ==
    /\ hist.joins = 1 /\ hist.restores = 1
    /\ cnt["restoreUpd"] = 1
    /\ \A t \in RestoreTasks : ~InRestore(t) /\ pc[t] # "rjoin"

C7_CleanupRemovesHelpers ==
    /\ (TornDown /\ argv.cleanup) =>
            \A s \in {"backup", "invoked", "completed"} : remote[s] = "none"
    /\ ~argv.cleanup => (Issued("delBackup") = 0 /\ Issued("delHelper") = 0)

\* C8: when peekAction finds an agent in the action slot and no backup, or a
\* backup that is itself an agent, start() fails, and the session never sends
\* anything but peekAction's reads: no update and no delete, the two slots stay
\* as they were found
C8_ConflictIsFatal ==
    hist.conflict =>
        /\ pc["main"] = "rejected"
        /\ \A g \in Tags \ {"peek"} : Issued(g) = 0
        /\ isAgent(remote["action"]) /\ ~usableBackup(remote["backup"] # "none", remote["backup"])
        /\ ~agentInstalled /\ invoker = "none"

\* a conflict was found and the session is over (the process has exited)
C8_ConflictSessionOver == hist.conflict /\ exited /\ remote["backup"] = "agentOld"

\* C9 as stated: with an agent left in the slot and a sound backup, the slot is
\* first overwritten with the backup's content, only then is the new agent
\* installed, and after the teardown the slot holds the original.  The last
\* part does not hold, for the reason C1 does not
C9_RecoveryRestoresFirst ==
    /\ (hist.recovery /\ Issued("push") > 0) => cnt["restoreUpd"] > 0
    /\ (hist.recovery /\ TornDown) => remote["action"] = "orig"

\* C10 as stated: whenever this session's agent is in the action slot, the
\* backup slot holds the original.  It does not hold: the backup write is sent
\* before the overwrite but not awaited, so the overwrite can be applied while
\* the backup write is in flight, or after it was rejected
C10_AgentImpliesBackup ==
    SessionAgent(remote["action"]) => remote["backup"] = "orig"

\* ------------------------------------------------------------------------
\* Properties of the agent (SpecAgent)
\* ------------------------------------------------------------------------

\* C4: a forwarded caller gets the local container's result for its own
\* parameters: the run loop executes an activation with the parameters
\* enqueued under its id, a result in the completions map is the local result
\* of the caller it is stored under, and a forwarded caller that has returned
\* holds the local result of its own parameters
C4_ResultsCorrelated ==
    /\ dbg.pc \in {"exec", "complete"} =>
            /\ dbg.id \in enqueued
            /\ callers[dbg.id].st = "waiting"
            /\ dbg.params = callers[dbg.id].params
    /\ \A c \in Callers :
        /\ completions[c] # NoResult =>
                /\ c \in enqueued /\ callers[c].st = "waiting"
                /\ completions[c] = LocalResult(callers[c].params)
        /\ (callers[c].st = "returned" /\ c \in enqueued) =>
                callers[c].res = LocalResult(callers[c].params)

\* two forwarded activations with different parameters were in flight
\* together: one caller has returned while the other one's result is stored
C4_TwoForwardedInterleaved ==
    \E c1, c2 \in Callers :
        /\ c1 \in enqueued /\ c2 \in enqueued
        /\ callers[c1].params # callers[c2].params
        /\ callers[c1].st = "returned"
        /\ callers[c2].st = "waiting" /\ completions[c2] # NoResult

\* the condition is set and does not hold for parameter x (it evaluates to a
\* falsy value, or its evaluation throws)
NotHit(x) == condition # "" /\ ~Truthy(Eval(condition, x))

\* C5: an invocation whose hit condition is false or throws is never enqueued:
\* it invokes the backup action and returns that action's result for its
\* parameters; without a condition every invocation is enqueued; the queue
\* holds only enqueued invocations
C5_BypassWhenNotHit ==
    /\ \A c \in Callers : callers[c].st # "idle" =>
        /\ NotHit(callers[c].params) =>
                /\ c \notin enqueued
                /\ callers[c].st \in {"bypass", "returned"}
                /\ callers[c].st = "returned" =>
                        callers[c].res = OrigResult(callers[c].params)
        /\ condition = "" => c \in enqueued
    /\ \A i \in 1 .. Len(activations) :
            /\ activations[i].id \in enqueued
            /\ ~NotHit(activations[i].params)

\* a caller whose condition throws was answered by the backup action, and
\* nothing was enqueued for it
C5_BypassedReturned ==
    \E c \in Callers :
        /\ condition = "nosuch.field"
        /\ callers[c].st = "returned" /\ callers[c].res = OrigResult(callers[c].params)
        /\ activations = << >> /\ c \notin enqueued

\* ------------------------------------------------------------------------
\* Properties of the run loop and of the tunnel listener (SpecTunnel)
\* ------------------------------------------------------------------------

\* the invoker.run call the run loop has in flight, if any
RunLoopRuns == IF pc["main"] = "exec" \/ dbg.pc = "exec" THEN 1 ELSE 0

\* C11 as stated: at most one invoker.run call is in flight at any time, in
\* every agent variant.  It does not hold for the tunnel variant: the listener
\* calls invoker.run for every request once its body has arrived, also while
\* an earlier call is in flight
C11_OneLocalRun == Cardinality(TunnelRuns) + RunLoopRuns <= 1

\* ------------------------------------------------------------------------
\* Properties of the agent's queue (SpecAgent)
\* ------------------------------------------------------------------------

\* activation c is in the agent's queue
InQueue(c) == \E i \in 1 .. Len(activations) : activations[i].id = c

\* C12 as stated: an enqueued activation leaves the queue only into the hands
\* of the run loop's $waitForActivation request, it is handed out once, and
\* the run loop executes it exactly once.  It does not hold: a
\* $waitForActivation request the client gave up on (answered without a
\* result) is still waiting in the agent and can shift the activation
C12_HandedAndRunOnce ==
    \A c \in enqueued :
        /\ ahist.handed[c] + (IF c \in ahist.orphaned THEN 1 ELSE 0) <= 1
        /\ InQueue(c) \/ ahist.handed[c] = 1
        /\ ~(InQueue(c) /\ ahist.handed[c] = 1)
        /\ ahist.executed[c] <= ahist.handed[c]
        /\ (ahist.handed[c] = 1 /\ ~(dbg.pc = "exec" /\ dbg.id = c)) =>
                ahist.executed[c] = 1

\* the run loop is between run() and the shutdown() of _run's finally
InRunLoop == ~exited /\ pc["main"] \in {"wait", "listSleep", "sleep", "exec", "complete"}

\* stop() or kill() was called and the run flags it cleared are still clear
FlagsCleared == (pc["stop"] # "idle" \/ pc["kill"] # "idle") /\ ~running /\ ~polling

\* C13: once stop() or kill() has cleared the run flags, the run loop ends
\* without any new activation having to arrive, in the concurrency variant
\* and in the activation-list variant alike
C13_StopEndsRunLoop == (FlagsCleared /\ InRunLoop) ~> ~InRunLoop

\* the positions of a _shutdown run inside agentMgr.shutdown()
SdAgentPcs == {"bkWait", "rjoin"} \cup RestorePcs

\* C14: every step a _shutdown run takes follows the order agent restore,
\* container stop, watcher stop, end; a step that throws (the rejected backup
\* write inside agentMgr.shutdown(), the watcher's close) is followed by the
\* next step like one that succeeds, and no run ever ends rejected
C14_TeardownStepsInOrder ==
    [][\A k \in SdRuns :
          pc'[k] # pc[k] =>
              CASE pc[k] = "idle" -> pc'[k] \in SdAgentPcs \cup {AfterAgentShutdown}
                [] pc[k] \in SdAgentPcs -> pc'[k] \in SdAgentPcs \cup {AfterAgentShutdown}
                [] pc[k] = "cstop" -> pc'[k] = "wstop" /\ invoker' = "gone"
                [] pc[k] = "wstop" -> pc'[k] = "done" /\ ~ready'
                [] OTHER -> FALSE]_vars

\* C14 happens: agentMgr.shutdown() rejected on the failed backup write, and
\* the same _shutdown still removed the container and came to its end
C14_RestoreFailedRestRan ==
    /\ pc["sd1"] = "done" /\ Cardinality(SdStarted) = 1
    /\ createBackup = "rejected"
    /\ invoker = "gone" /\ ~ready

\* the catch of start() was entered, with the error of step local["main"]
StartFailed == runPromise = "undef" /\ local["main"] \in StartSteps

\* step e of start() did throw
Threw(e) ==
    CASE e \in {"ct", "ow", "init", "ag"} -> pc[e] = "failed"
      [] e = "prepare" -> pc["ct"] = "idle" /\ pc["ow"] = "idle"
      [] e = "watch" -> pc["init"] = "done" /\ pc["ag"] = "done"
      [] OTHER -> FALSE

\* start() rejects in this step
StartRejects == pc["main"] # "rejected" /\ pc'["main"] = "rejected" /\ runPromise = "undef"

\* C15, as the claim has it: whenever start() rejects after the container
\* adapter was created, it has awaited a teardown that ran to its end
C15_AnyLaterFailureTearsDown ==
    [][(StartRejects /\ invoker # "none") =>
          (pc["main"] = "awaitShutdown" /\ pc[waitOn["main"]] = "done")]_vars

\* C15, as the code has it: a step inside the try of start() (prepare,
\* container start, code fetch, init, agent install, watcher start) that
\* throws takes start() to its catch; start() then rejects only when the
\* teardown it awaits has ended, and with the error of a step that threw; the
\* session never becomes ready, and a ready session has no failed step
C15_StartFailureTearsDown ==
    [][/\ StartFailed' => ~ready'
       /\ ready' => \A t \in {"ct", "ow", "init", "ag"} : pc'[t] # "failed"
       /\ (StartRejects /\ StartFailed) =>
              /\ pc["main"] = "awaitShutdown" /\ pc[waitOn["main"]] = "done"
              /\ Threw(local["main"])
              /\ local'["main"] = local["main"]]_vars

\* C15 happens: init threw, the teardown removed the container, start() has
\* rejected with the error of init
C15_InitFailedStartRejected ==
    /\ StartFailed /\ local["main"] = "init"
    /\ pc["main"] = "rejected" /\ invoker = "gone" /\ ~ready

\* C16: once the new container exists, no container with this action's
\* label that startContainer found running is still running
C16_NoLeftOverBesideNew ==
    containers[New].st # "absent" =>
        \A c \in OldIds : ~(containers[c].st = "running" /\ containers[c].label = "this")

\* C16 happens: two containers of the action were removed and the new one runs
C16_TwoRemovedNewRuns ==
    /\ containers[New].st = "running"
    /\ Cardinality(sc.removed) >= 2

\* C17: when the debug port was found reachable after the removal,
\* startContainer ends with one of the port errors, and the new container is
\* neither created nor started
C17_PortInUseNoContainer ==
    sc.reachable =>
        /\ sc.pc \in {"portList", "failed"}
        /\ sc.pc = "failed" => sc.err \in {"portWskdebug", "portContainer", "portProcess"}
        /\ containers[New].st = "absent"

\* C17 happens: a left-over container was removed, the port is held by some
\* process, startContainer failed
C17_RemovedThenPortError ==
    /\ sc.pc = "failed" /\ sc.err = "portProcess"
    /\ sc.removed # {}
    /\ containers[New].st = "absent"

FirstSet(vals) ==
    IF \E i \in 1 .. Len(vals) : vals[i] \notin {"absent", "undefined"}
    THEN vals[CHOOSE i \in 1 .. Len(vals) :
                /\ vals[i] \notin {"absent", "undefined"}
                /\ \A j \in 1 .. i - 1 : vals[j] \in {"absent", "undefined"}]
    ELSE "absent"

\* C19: for the host and the namespace, get() returns the value of the first
\* of OW_* variables, AIO_runtime_* variables, wskprops file that sets the
\* key; the credential comes from the first of them that sets auth and is
\* returned under api_key, and no key auth is returned
C19_PrecedencePerKey ==
    props # NoProps =>
        /\ \A k \in {"apihost", "namespace"} :
              FirstSet(<<props[k]>>) =
                  FirstSet(<<getWskEnvProps[k], getAioEnvProps[k], getWskProps[k]>>)
        /\ props["api_key"] =
              FirstSet(<<getWskEnvProps["auth"], getAioEnvProps["auth"],
                         getWskProps["auth"], getWskProps["api_key"]>>)
        /\ props["auth"] = "absent"

\* C20: when AgentMgr.shutdown() gets past `await this.createBackup` and the
\* agent was installed, it goes on into restoreAction(), whether the backup
\* write was fulfilled or rejected
C20_RestoreDespiteFailedBackup ==
    [][\A k \in SdRuns :
          (pc[k] = "bkWait" /\ pc'[k] # "bkWait" /\ agentInstalled) =>
              pc'[k] \in {"rjoin"} \cup RestorePcs]_vars

\* C21: when installAgent() has returned normally and shutdown has not begun,
\* the slot of the action holds the agent of this session; in particular a
\* session that reports ready has the agent in place
C21_InstalledMeansAgentInSlot ==
    /\ (pc["ag"] = "done" /\ ~shuttingDown) => SessionAgent(remote["action"])
    /\ (ready /\ ~shuttingDown) => SessionAgent(remote["action"])

\* C22: start() failed because init failed, the platform accepted the backup
\* write, and both the teardown and installAgent have finished (no request of
\* either is in flight any more): the slot of the action does not hold the
\* agent of this session
C22_NoAgentAfterFailedStart ==
    ( /\ StartFailed /\ local["main"] = "init"
      /\ env.backupWriteOk
      /\ ~exited
      /\ pc["sd1"] = "done" /\ SdActive = {}
      /\ pc["ag"] \in {"done", "failed"}
      /\ \A t \in Tasks : call[t].st # "pending" )
        => ~SessionAgent(remote["action"])

\* ------------------------------------------------------------------------
\* Properties of a session with the tunnel agent (SpecTunnelSession)
\* ------------------------------------------------------------------------

\* C23: invoker.run is called, by the run loop or by the listener of the
\* tunnel, only when invoker.init has completed successfully
C23_NoRunBeforeInit ==
    /\ pc["main"] = "exec" => pc["init"] = "done"
    /\ \A r \in Reqs : reqs[r].ran => pc["init"] = "done"

\* ------------------------------------------------------------------------
\* Properties of the activation-record poll (SpecLogFair)
\* ------------------------------------------------------------------------

\* C24: every "invoked" record the agent writes while the session runs is
\* eventually returned by waitForActivations, and no record is ever returned
\* twice
C24_EveryRecordReturnedOnce ==
    /\ [](\A i \in RecordIds : returned[i] <= 1)
    /\ \A i \in RecordIds : (i <= Len(records)) ~> (returned[i] = 1)

\* ------------------------------------------------------------------------
\* Properties of the run loop (Spec)
\* ------------------------------------------------------------------------

\* C25: when the wait of waitForActivations is answered with a 503 (the
\* platform is overloaded), waitForActivations sleeps and waits again; the
\* session does not end, with whichever agent
C25_TransientErrorRetried ==
    [][waitAnsweredWith("e503") => pc'["main"] = "sleep"]_vars

\* C26: in waitForActivations the reserved code 42 is not surfaced: the wait
\* sleeps and, while polling is set, waits again; the reserved code 43 makes
\* it return null, the run loop ends without running anything and enters the
\* teardown, and run() resolves; any other error that is not retried is
\* thrown, and run() rejects after the teardown
C26_ReservedCodesInWait ==
    [][ /\ waitAnsweredWith("retry") =>
              (pc'["main"] \in {"sleep", "listSleep"} /\ local' = local)
        /\ (pc["main"] = "sleep" /\ pc'["main"] # "sleep") =>
              pc'["main"] = (IF polling THEN "wait" ELSE "awaitShutdown")
        /\ waitAnsweredWith("stop43") =>
              (pc'["main"] = "awaitShutdown" /\ local'["main"] = "null")
        /\ local'["main"] = "null" => pc'["main"] \in {"awaitShutdown", "finished"}
        /\ waitAnsweredWith("error") =>
              (pc'["main"] = "awaitShutdown" /\ local'["main"] = "err")
        /\ (local'["main"] = "err" /\ runPromise' # "undef") =>
              pc'["main"] \in {"awaitShutdown", "rejected"} ]_vars

\* code 43 was answered to a wait, the run loop ended and, the teardown
\* done, run() resolved
C26_GracefulStopByAgent ==
    local["main"] = "null" /\ pc["main"] = "finished" /\ pc["sd1"] = "done"

\* C27: completeActivation returns false when, and only when, the completion
\* is answered with code 43, and then the run loop ends (its teardown begins);
\* on success, on code 42 and on any other error it returns true, nothing is
\* thrown, and the run loop goes on: to the next wait while the run flag and
\* polling are set, to its end otherwise
C27_CompletionEndsLoopOn43Only ==
    [][\A o \in CompleteOutcomes :
          completeActivationWith(o) =>
              IF o = "stop43"
              THEN pc'["main"] = "awaitShutdown" /\ local'["main"] = "false"
              ELSE /\ local' = local
                   /\ pc'["main"] = (IF running /\ polling THEN "wait"
                                     ELSE "awaitShutdown")]_vars

\* the completion was answered with code 43: the run loop ended and, the
\* teardown done, run() resolved
C27_CompletionStoppedLoop ==
    local["main"] = "false" /\ pc["main"] = "finished" /\ pc["sd1"] = "done"

\* where task main is while it is inside the loop of _run
RunLoopPcs == {"wait", "listSleep", "sleep", "exec", "complete", "ngrokSleep"}

\* C28: when the run loop is left, for whatever reason (null from the wait,
\* false from the completion, the run flag cleared, an exception of the wait or
\* of the local run), _run calls shutdown() and awaits a teardown; the promise
\* of run() settles only when that teardown has run to its end
C28_RunSettlesAfterTeardown ==
    [][ /\ (pc["main"] \in RunLoopPcs /\ pc'["main"] \notin RunLoopPcs) =>
              /\ pc'["main"] = "awaitShutdown"
              /\ waitOn'["main"] \in SdActive'
              /\ runPromise' = "pending"
        /\ (runPromise = "pending" /\ runPromise' # "pending") =>
              /\ pc["main"] = "awaitShutdown"
              /\ pc[waitOn["main"]] = "done" ]_vars

\* the local run threw while running an activation: the loop was left, the
\* teardown ran and run() has rejected
C28_RunRejectedAfterTeardown ==
    /\ runPromise = "settled" /\ pc["main"] = "rejected" /\ local["main"] = "err"
    /\ pc["sd1"] = "done" /\ invoker = "gone"

\* C29: stop() returns only after a teardown has run to its end: the one of
\* the run loop, whose end it awaits through the promise of run(), or, when
\* run() was never called, the one it awaits through shutdown(); and when the
\* slot was overwritten with the agent in this session, a restore of the
\* original has been started by then
C29_StopReturnsAfterTeardown ==
    [][(pc["stop"] # "done" /\ pc'["stop"] = "done") =>
          /\ IF pc["stop"] = "awaitRun"
                THEN runPromise = "settled" /\ pc["main"] \in {"finished", "rejected"}
                ELSE pc[waitOn["stop"]] = "done"
          /\ \E k \in SdRuns : pc[k] = "done"
          /\ (cnt["push"] >= 1 /\ ~hist.recovery) => hist.restores >= 1]_vars

\* C30: in start(), init and installAgent are begun only when the container
\* start and the fetch of the action's code have both succeeded; the session
\* is ready only when init and installAgent have both succeeded; so the
\* overwrite of the slot with the agent is never sent before the container
\* has been started
C30_StartPhasesInOrder ==
    /\ \A t \in {"init", "ag"} :
          pc[t] # "idle" => (pc["ct"] = "done" /\ pc["ow"] = "done")
    /\ ready => (pc["init"] = "done" /\ pc["ag"] = "done")
    /\ Issued("push") >= 1 => (pc["ct"] = "done" /\ invoker # "none")
    /\ SessionAgent(remote["action"]) => pc["ct"] = "done"

\* the session is ready: the container is initialised and the agent of this
\* session is in the slot
C30_ReadyWithAgentInstalled ==
    /\ ready /\ pc["init"] = "done" /\ pc["ag"] = "done"
    /\ SessionAgent(remote["action"]) /\ invoker = "up"

\* C31: a _shutdown run sends the update that restores the action slot only
\* when no backup write is in flight; and once the tunnel agent exists, every
\* run leaves AgentMgr.shutdown() through the stop of the tunnel, whether the
\* restore was made, failed or was skipped, after which the listener listens
\* no more, for good
C31_BackupAwaitedListenerStopped ==
    [][ /\ \A k \in SdRuns :
              (call'[k].tag = "restoreUpd" /\ call[k].tag # "restoreUpd") =>
                  createBackup # "pending"
        /\ \A k \in SdRuns :
              ( /\ pc["ag"] # "idle"
                /\ pc[k] \in {"idle"} \cup SdAgentPcs
                /\ pc'[k] \notin {"idle"} \cup SdAgentPcs ) => pc'[k] = "nstop"
        /\ \A k \in SdRuns :
              (pc[k] = "nstop" /\ pc'[k] # "nstop") => ngrokServer' = "closed"
        /\ ngrokServer = "closed" => ngrokServer' = "closed" ]_vars

\* the backup write was rejected, so AgentMgr.shutdown() threw before the
\* restore; the listener was closed all the same and the teardown ended
C31_ListenerClosedRestoreFailed ==
    /\ createBackup = "rejected" /\ ngrokServer = "closed"
    /\ pc["sd1"] = "done" /\ cnt["restoreUpd"] = 0

\* ------------------------------------------------------------------------
\* C32: readActionWithCode either fails or returns an action that is not an
\* agent; when peekAction flagged an agent as already installed, the slot is
\* never read for the code: what is returned is the content restored from
\* the backup copy
\* ------------------------------------------------------------------------
C32_ReadReturnsTheOriginal ==
    /\ pc["ow"] = "done" => (actionWithCode = "orig" /\ ~isAgent(actionWithCode))
    /\ hist.recovery => cnt["read"] = 0
    /\ (hist.recovery /\ pc["ow"] = "done") =>
            (cnt["restoreGet"] >= 1 /\ actionWithCode = local["ow"])

\* an agent was left in the slot, and the code came back from the backup
C32_OriginalReadFromBackup ==
    /\ hist.recovery /\ pc["ow"] = "done"
    /\ actionWithCode = "orig" /\ cnt["restoreGet"] = 1 /\ cnt["read"] = 0

\* ------------------------------------------------------------------------
\* C33: the queue of the concurrency agent is first-in first-out: the
\* $waitForActivation requests return the activations in the order
\* newActivation enqueued them, and the debugger completes the activations
\* it received in the order it received them
\* ------------------------------------------------------------------------

\* the ids of the activations waiting in the queue, head first
QueuedIds == [i \in 1 .. Len(activations) |-> activations[i].id]

C33_QueueIsFifo ==
    /\ ahist.deq \o QueuedIds = ahist.enq
    /\ SelectSeq(ahist.deq, LAMBDA c : c \notin ahist.orphaned) = ahist.got
    /\ Len(ahist.done) <= Len(ahist.got)
    /\ Len(ahist.got) <= Len(ahist.done) + 1
    /\ SubSeq(ahist.got, 1, Len(ahist.done)) = ahist.done

\* two activations were queued behind one another and both completed in
\* the order enqueued, neither of them the lowest id
C33_TwoCompletedInOrder ==
    /\ ahist.enq = <<3, 2, 1>>
    /\ ahist.done = <<3, 2>>
    /\ Len(activations) = 1

\* ------------------------------------------------------------------------
\* C34: every $waitForActivation request ends: it returns the head of the
\* queue, and only when the queue is not empty, or it fails with code 42,
\* and only once its deadline has passed; waitForCompletion has no deadline
\* and returns only once a result is stored under its id
\* ------------------------------------------------------------------------
C34_WaitEnds ==
    /\ [][ /\ (dbg'.pc = "exec" /\ dbg.pc # "exec") =>
                  /\ activations # << >>
                  /\ dbg'.id = Head(activations).id
                  /\ activations' = Tail(activations)
           /\ (dbg.pc = "polling" /\ dbg'.pc = "polling" /\ dbg' # dbg) =>
                  activations = << >>
           /\ (dbg.pc = "polling" /\ dbg'.pc = "idle" /\ orphans' = orphans) =>
                  dbg.elapsed + 1 >= WaitDeadline
           /\ \A c \in Callers :
                  (callers[c].st = "waiting" /\ callers'[c].st # "waiting") =>
                      /\ completions[c] # NoResult
                      /\ callers'[c].res = completions[c] ]_vars
    /\ (dbg.pc = "polling") ~> (dbg.pc # "polling")
    /\ (orphans = MaxOrphans) ~> (orphans < MaxOrphans)

\* a wait that has slept up to its last sleep before the deadline, the queue
\* still empty, after an earlier activation went through
C34_WaitAboutToExpire ==
    /\ dbg.pc = "polling" /\ dbg.elapsed = WaitDeadline - 1
    /\ activations = << >>
    /\ Len(ahist.done) >= 1

\* ------------------------------------------------------------------------
\* C35: once waitForCompletion has returned to the caller of a forwarded
\* activation, the completions map has no entry for its id and the queue
\* does not hold the activation; when every forwarded activation has been
\* returned to its caller, the queue and the map are empty
\* ------------------------------------------------------------------------
C35_NothingLeftAfterReturn ==
    /\ \A c \in enqueued :
            callers[c].st = "returned" =>
                /\ completions[c] = NoResult
                /\ \A i \in 1 .. Len(activations) : activations[i].id # c
    /\ (\A c \in enqueued : callers[c].st = "returned") =>
            /\ activations = << >>
            /\ \A c \in Callers : completions[c] = NoResult

\* every caller was forwarded and has its result, nothing is left behind
C35_AllForwardedReturned ==
    /\ enqueued = Callers
    /\ \A c \in Callers : callers[c].st = "returned"
    /\ activations = << >>

\* ------------------------------------------------------------------------
\* C36: the channel of the run loop matches the agent that is installed:
\* while the loop runs and no teardown has begun, a client that invokes the
\* action itself (concurrency set) has the concurrency agent in the slot, and
\* a client that polls <name>_wskdebug_invoked and invokes
\* <name>_wskdebug_completed has the activation-db agent in the slot and
\* both helper actions deployed; one flag selects the channel of the wait
\* and of the completion
\* ------------------------------------------------------------------------
C36_ChannelMatchesAgent ==
    (pc["main"] \in {"wait", "listSleep", "sleep", "exec", "complete"} /\ ~shuttingDown) =>
        IF concurrency = TRUE
            THEN remote["action"] = "agentC"
            ELSE /\ remote["action"] = "agentP"
                 /\ remote["invoked"] = "helper"
                 /\ remote["completed"] = "helper"

\* ------------------------------------------------------------------------
\* C37: the backup copy written by installAgent is a copy of the original:
\* once the backup write of this session has succeeded, the backup slot (as
\* long as it is not deleted) holds exactly the original, without any of the
\* agent's own parameters, in every variant
\* ------------------------------------------------------------------------
C37_BackupIsTheOriginal ==
    (createBackup = "resolved" /\ remote["backup"] # "none") =>
        (remote["backup"] = "orig" /\ remote["backup"] = actionWithCode)

\* ------------------------------------------------------------------------
\* C38: init retries while the container is not ready, on a refused
\* connection and on a transient 5xx answer alike, every INIT_RETRY_DELAY_MS
\* and at most RETRIES times, and then gives up; an answer 502 makes init
\* fail at once and is never retried
\* ------------------------------------------------------------------------
C38_InitRetriesUntilReady ==
    /\ ini.attempt <= RETRIES
    /\ ini.t = ini.attempt * INIT_RETRY_DELAY_MS
    /\ (ini.pc = "rejected" /\ ini.err = "network") => ini.attempt = RETRIES
    /\ ini.last = "s502" => (ini.pc = "rejected" /\ ini.err = "init502")
    /\ ini.pc = "resolved" => ini.last = "s200"
    /\ (ini.last \in {"refused", "s503"} /\ ini.attempt < RETRIES) =>
            ini.pc \in {"delay", "fetching"}

\* ------------------------------------------------------------------------
\* C39: stop() is idempotent: the first call that finds a handle issues one
\* forced removal and forgets the handle, every further call issues none; a
\* 404 of the removal is not an error; after a stop() whose removal did not
\* fail with another error the new container is gone
\* ------------------------------------------------------------------------
C39_StopIsIdempotent ==
    /\ sc.removes <= 1
    /\ sc.stops >= 1 => ~sc.container
    /\ (sc.stops >= 1 /\ sc.pc = "done") => sc.removes = 1
    /\ (sc.stops >= 1 /\ sc.answer # "error") => containers[New].st = "absent"

\* C39 as worded: after stop() the new container is no longer running,
\* whatever docker answered to the removal
C39_GoneAfterStop ==
    sc.stops >= 1 => containers[New].st # "running"

\* the container was started, stop() was called twice and the one removal
\* found the container already gone
C39_SecondStopAfter404 ==
    /\ sc.pc = "done" /\ sc.stops = 2 /\ sc.removes = 1
    /\ sc.answer = "e404" /\ ~sc.container

\* ------------------------------------------------------------------------
\* C40: prepare() resolves each value from the explicit option first, then
\* from the action, then from the defaults of the kind (the external debug
\* port from the internal-port option before the default of the kind); it
\* throws exactly when the kind is blackbox with no --kind, or no image, no
\* debug port or no debug command can be resolved, and the container is
\* started only after prepare() has returned with every value resolved
\* ------------------------------------------------------------------------

\* the kinds table knows the kind the options and the action come to
KnownKind ==
    \/ pre.in.kind = "nodejs:10"
    \/ pre.in.kind = "none" /\ pre.in.actionKind = "nodejs:10"

C40_PreparePrecedence ==
    pre.out.st # "none" =>
        /\ pre.out.st = "error" <=>
              \/ pre.in.kind = "none" /\ pre.in.actionKind = "blackbox"
              \/ pre.in.image = "none" /\ pre.in.actionImage = "none" /\ ~KnownKind
              \/ pre.in.internalPort = "none" /\ ~KnownKind
              \/ pre.in.command = "none" /\ ~KnownKind
        /\ pre.out.st \in {"ok", "started"} =>
              /\ pre.in.kind # "none" => pre.out.kind = pre.in.kind
              /\ pre.in.kind = "none" => pre.out.kind = pre.in.actionKind
              /\ pre.in.image # "none" => pre.out.image = "optImage"
              /\ (pre.in.image = "none" /\ pre.in.actionImage # "none") =>
                    pre.out.image = "actionImage"
              /\ (pre.in.image = "none" /\ pre.in.actionImage = "none") =>
                    pre.out.image = "kindImage"
              /\ pre.in.internalPort # "none" => pre.out.internalPort = "optInternalPort"
              /\ pre.in.internalPort = "none" => pre.out.internalPort = "kindPort"
              /\ pre.in.port # "none" => pre.out.port = "optPort"
              /\ (pre.in.port = "none" /\ pre.in.internalPort # "none") =>
                    pre.out.port = "optInternalPort"
              /\ (pre.in.port = "none" /\ pre.in.internalPort = "none") =>
                    pre.out.port = "kindPort"
              /\ pre.in.command # "none" => pre.out.command = "optCommand"
              /\ pre.in.command = "none" => pre.out.command = "kindCommand"
        /\ pre.out.st = "error" =>
              /\ pre.out.image = "none" /\ pre.out.port = "none"
              /\ pre.out.err \in {"blackbox", "image", "port", "internalPort", "command"}

\* a blackbox action debugged with --kind and --internal-port: the image is
\* the action's, the external port is the internal-port option, the command
\* the default of the kind; the container was started
C40_BlackboxWithKindOverride ==
    /\ pre.out.st = "started"
    /\ pre.in.actionKind = "blackbox" /\ pre.in.kind = "nodejs:10"
    /\ pre.in.image = "none" /\ pre.out.image = "actionImage"
    /\ pre.in.port = "none" /\ pre.out.port = "optInternalPort"
    /\ pre.out.command = "kindCommand"

====
